---- MODULE Spec2Model ----
(***************************************************************************)
(* Tracking-App: a model of the time-and-expense tracker.                  *)
(*                                                                         *)
(* Text is modelled as a sequence of one-character strings, so that the    *)
(* smart time parser (lower-casing, whitespace collapsing, the separator   *)
(* regular expression, the date-fns format tokens) is computed character   *)
(* by character as the code computes it.  A duration (hours with two       *)
(* decimals) is an integer number of hundredths of an hour.                *)
(*                                                                         *)
(* date-fns parse/format are modelled for a reference day of 24 hours in   *)
(* which every wall-clock time exists (no daylight-saving transition), and *)
(* both `new Date()` reference dates of one call fall on the same day.     *)
(***************************************************************************)
EXTENDS Integers, Sequences, FiniteSets, Bags, TLC

VARIABLES
    variant,        \* which App the build contains: "current" or "earlier"
    currentView,    \* App state: the view renderView shows
    selectedDate,   \* App state: the day of the day view (current App)
    session,        \* App state: a session is held (TRUE) or null (FALSE)
    loadingSession, \* App state: getSession() has not resolved yet
    entries,        \* App state: date -> [time: list, expense: list]
    savedOptions,   \* App state: [time: labels, expense: labels]
    loadingData,    \* App state: loadingData (loading in the earlier App)
    error,          \* App state: the fetch error message, "null" if none
    crashed,        \* a state updater threw while rendering: tree unmounted
    alertMsg,       \* the alert() raised by the step just taken, or "none"
    form,           \* the time form of DayDetailView / TodayView
    rows,           \* backend table entries, in created_at order
    optionRows,     \* backend table saved_options
    nextId,         \* the id the backend gives the next inserted row
    nextTemp,       \* how many temporary ids addEntry has drawn, plus one
    net,            \* bag of backend requests awaited by a handler
    call,           \* pure-function harness: the call being made [fn, a, b]
    ret,            \* pure-function harness: its return value
    pc              \* pure-function harness: "call" before, "done" after

appVars == <<variant, currentView, selectedDate,
             session, loadingSession, entries, savedOptions,
             loadingData, error, crashed, alertMsg, form,
             rows, optionRows, nextId, nextTemp, net>>

pureVars == <<call, ret, pc>>

allButAlert == <<variant, currentView, selectedDate,
                session, loadingSession, entries, savedOptions,
                loadingData, error, crashed, form,
                rows, optionRows, nextId, nextTemp, net>>

vars == <<appVars, pureVars>>

----------------------------------------------------------------------------
(* Characters *)

DigitChars == <<"0", "1", "2", "3", "4", "5", "6", "7", "8", "9">>

IsDigit(c) == \E i \in 1..10 : DigitChars[i] = c

DigitVal(c) == (CHOOSE i \in 1..10 : DigitChars[i] = c) - 1

DigitChar(n) == DigitChars[n + 1]

\* \s of the regular expressions
IsSpace(c) == c \in {" ", "\t", "\n"}

UpperChars == <<"A", "D", "E", "G", "H", "I", "L", "M", "N", "O", "P", "R", "T", "U", "W">>

LowerChars == <<"a", "d", "e", "g", "h", "i", "l", "m", "n", "o", "p", "r", "t", "u", "w">>

LowerChar(c) ==
    IF \E i \in 1..Len(UpperChars) : UpperChars[i] = c
    THEN LowerChars[CHOOSE i \in 1..Len(UpperChars) : UpperChars[i] = c]
    ELSE c

\* String.prototype.toLowerCase
toLowerCase(s) == [i \in 1..Len(s) |-> LowerChar(s[i])]

\* s.slice(n): the text after the first n characters
Slice(s, n) == SubSeq(s, n + 1, Len(s))

\* s.indexOf(lit) === 0
StartsWith(s, lit) == Len(s) >= Len(lit) /\ SubSeq(s, 1, Len(lit)) = lit

\* the first index >= i that holds no whitespace (Len(s)+1 when none)
SpaceRunEnd(s, i) ==
    IF \E j \in i..Len(s) : ~IsSpace(s[j])
    THEN CHOOSE j \in i..Len(s) : ~IsSpace(s[j]) /\ \A k \in i..(j - 1) : IsSpace(s[k])
    ELSE Len(s) + 1

\* replace(/\s+/g, ' ')
RECURSIVE collapseSpaces(_)
collapseSpaces(s) ==
    IF s = <<>> THEN <<>>
    ELSE IF IsSpace(Head(s))
         THEN <<" ">> \o collapseSpaces(Slice(s, SpaceRunEnd(s, 1) - 1))
         ELSE <<Head(s)>> \o collapseSpaces(Tail(s))

\* String.prototype.trim
trim(s) ==
    IF \A i \in 1..Len(s) : IsSpace(s[i]) THEN <<>>
    ELSE LET first == CHOOSE i \in 1..Len(s) : ~IsSpace(s[i]) /\ \A k \in 1..(i - 1) : IsSpace(s[k])
             last  == CHOOSE i \in 1..Len(s) : ~IsSpace(s[i]) /\ \A k \in (i + 1)..Len(s) : IsSpace(s[k])
         IN  SubSeq(s, first, last)

\* input.toLowerCase().replace(/\s+/g, ' ').trim()
cleanInput(s) == trim(collapseSpaces(toLowerCase(s)))

----------------------------------------------------------------------------
(* clean.split(/\s+(?:to|-|until)\s+/) *)

SeparatorWords == << <<"t", "o">>, <<"-">>, <<"u", "n", "t", "i", "l">> >>

\* (?:to|-|until)\s+ at index a: word w stands there, whitespace after it
SeparatorWordAt(s, a, w) ==
    /\ StartsWith(Slice(s, a - 1), SeparatorWords[w])
    /\ SpaceRunEnd(s, a + Len(SeparatorWords[w])) > a + Len(SeparatorWords[w])

\* the separator expression tried at index q, its leading whitespace ending
\* before index a: the index after the match, 0 if it does not match there
MatchSeparatorFrom(s, q, a) ==
    IF a = q \/ ~\E w \in 1..Len(SeparatorWords) : SeparatorWordAt(s, a, w) THEN 0
    ELSE SpaceRunEnd(s, a + Len(SeparatorWords[
            CHOOSE w \in 1..Len(SeparatorWords) :
                /\ SeparatorWordAt(s, a, w)
                /\ \A v \in 1..(w - 1) : ~SeparatorWordAt(s, a, v)]))

MatchSeparatorAt(s, q) == MatchSeparatorFrom(s, q, SpaceRunEnd(s, q))

\* String.prototype.split with the separator expression: p is the start of the
\* current piece, q the index where a match is tried, e the end of the match
\* at q (0 if none)
RECURSIVE SplitFrom(_, _, _)
SplitStep(s, p, q, e) ==
    IF e = 0 THEN SplitFrom(s, p, q + 1)
    ELSE << SubSeq(s, p, q - 1) >> \o SplitFrom(s, e, e)

SplitFrom(s, p, q) ==
    IF q > Len(s) THEN << SubSeq(s, p, Len(s)) >>
    ELSE SplitStep(s, p, q, MatchSeparatorAt(s, q))

splitParts(s) == SplitFrom(s, 1, 1)

----------------------------------------------------------------------------
(* date-fns parse(str, fmt, referenceDate), for the formats parsePart tries *)

NoParse == [ok |-> FALSE, value |-> 0, rest |-> <<>>]

\* parseNDigits(2): /^\d{1,2}/
parseTwoDigits(s) ==
    IF s = <<>> \/ ~IsDigit(s[1]) THEN NoParse
    ELSE IF Len(s) >= 2 /\ IsDigit(s[2])
         THEN [ok |-> TRUE, value |-> 10 * DigitVal(s[1]) + DigitVal(s[2]), rest |-> Slice(s, 2)]
         ELSE [ok |-> TRUE, value |-> DigitVal(s[1]), rest |-> Slice(s, 1)]

\* numericPatterns.hour23h: /^(2[0-3]|[0-1]?\d)/
parseHour23h(s) ==
    IF s = <<>> \/ ~IsDigit(s[1]) THEN NoParse
    ELSE IF Len(s) >= 2 /\ IsDigit(s[2])
            /\ \/ s[1] = "2" /\ DigitVal(s[2]) <= 3
               \/ s[1] \in {"0", "1"}
         THEN [ok |-> TRUE, value |-> 10 * DigitVal(s[1]) + DigitVal(s[2]), rest |-> Slice(s, 2)]
         ELSE [ok |-> TRUE, value |-> DigitVal(s[1]), rest |-> Slice(s, 1)]

\* numericPatterns.hour12h: /^(1[0-2]|0?\d)/
parseHour12h(s) ==
    IF s = <<>> \/ ~IsDigit(s[1]) THEN NoParse
    ELSE IF Len(s) >= 2 /\ IsDigit(s[2])
            /\ \/ s[1] = "1" /\ DigitVal(s[2]) <= 2
               \/ s[1] = "0"
         THEN [ok |-> TRUE, value |-> 10 * DigitVal(s[1]) + DigitVal(s[2]), rest |-> Slice(s, 2)]
         ELSE [ok |-> TRUE, value |-> DigitVal(s[1]), rest |-> Slice(s, 1)]

\* dayPeriodEnumToHours; "narrow_n" is the narrow match "n", for which the
\* parse patterns find no key (undefined, the default branch)
dayPeriodEnumToHours(dayPeriod) ==
    CASE dayPeriod = "morning" -> 4
      [] dayPeriod = "evening" -> 17
      [] dayPeriod \in {"pm", "noon", "afternoon"} -> 12
      [] OTHER -> 0

\* the phrases of the en-US day period patterns, (in the|at) (morning|...),
\* with the key that parseDayPeriodPatterns finds first: /^a/ makes every
\* "at ..." phrase am
DayPeriodPhrases == <<
    [text |-> <<"i","n"," ","t","h","e"," ","m","o","r","n","i","n","g">>, key |-> "morning"],
    [text |-> <<"i","n"," ","t","h","e"," ","a","f","t","e","r","n","o","o","n">>, key |-> "afternoon"],
    [text |-> <<"i","n"," ","t","h","e"," ","e","v","e","n","i","n","g">>, key |-> "evening"],
    [text |-> <<"i","n"," ","t","h","e"," ","n","i","g","h","t">>, key |-> "night"],
    [text |-> <<"a","t"," ","m","o","r","n","i","n","g">>, key |-> "am"],
    [text |-> <<"a","t"," ","a","f","t","e","r","n","o","o","n">>, key |-> "am"],
    [text |-> <<"a","t"," ","e","v","e","n","i","n","g">>, key |-> "am"],
    [text |-> <<"a","t"," ","n","i","g","h","t">>, key |-> "am"] >>

\* 1 if the character at index i of s satisfies the test, else 0
OptionalDot(s, i) == IF Len(s) >= i /\ s[i] = "." THEN 1 ELSE 0

OptionalSpace(s, i) == IF Len(s) >= i /\ IsSpace(s[i]) THEN 1 ELSE 0

\* m\.? at index i: the length matched from the head of s, 0 if no m there
MeridiemEnd(s, i) ==
    IF Len(s) >= i /\ s[i] = "m" THEN i + OptionalDot(s, i + 1) ELSE 0

\* \s?m\.? at index i
MeridiemTail(s, i) == MeridiemEnd(s, i + OptionalSpace(s, i))

\* the length matched by [ap]\.?\s?m\.? at the head of s, 0 if none
MeridiemLen(s) ==
    IF s = <<>> \/ s[1] \notin {"a", "p"} THEN 0
    ELSE MeridiemTail(s, 2 + OptionalDot(s, 2))

\* match.dayPeriod, width abbreviated (the pattern "any") and then narrow;
\* value is the day period found
takePhrase(s, phrase) == [ok |-> TRUE, value |-> phrase.key, rest |-> Slice(s, Len(phrase.text))]

parseDayPeriod(s) ==
        IF MeridiemLen(s) > 0
        THEN [ok |-> TRUE, value |-> IF s[1] = "a" THEN "am" ELSE "pm",
              rest |-> Slice(s, MeridiemLen(s))]
        ELSE IF StartsWith(s, <<"m","i","d","n","i","g","h","t">>)
        THEN [ok |-> TRUE, value |-> "midnight", rest |-> Slice(s, 8)]
        ELSE IF StartsWith(s, <<"n","o","o","n">>)
        THEN [ok |-> TRUE, value |-> "noon", rest |-> Slice(s, 4)]
        ELSE IF \E i \in 1..Len(DayPeriodPhrases) : StartsWith(s, DayPeriodPhrases[i].text)
        THEN takePhrase(s, DayPeriodPhrases[
                CHOOSE i \in 1..Len(DayPeriodPhrases) : StartsWith(s, DayPeriodPhrases[i].text)])
        \* narrow: /^(a|p|mi|n|...)/
        ELSE IF StartsWith(s, <<"a">>)
        THEN [ok |-> TRUE, value |-> "am", rest |-> Slice(s, 1)]
        ELSE IF StartsWith(s, <<"p">>)
        THEN [ok |-> TRUE, value |-> "pm", rest |-> Slice(s, 1)]
        ELSE IF StartsWith(s, <<"m","i">>)
        THEN [ok |-> TRUE, value |-> "midnight", rest |-> Slice(s, 2)]
        ELSE IF StartsWith(s, <<"n">>)
        THEN [ok |-> TRUE, value |-> "narrow_n", rest |-> Slice(s, 1)]
        ELSE NoParse

\* the formats of parsePart, in the order it tries them, as date-fns splits
\* them into tokens
formats == <<
    << "HH", ":", "mm" >>,
    << "H", ":", "mm" >>,
    << "h", ":", "mm", " ", "a" >>,
    << "h", ":", "mm", "a" >>,
    << "h", "a" >>,
    << "h", " ", "a" >> >>

\* one token against the head of the text
parseToken(token, s) ==
    CASE token = "HH" -> parseTwoDigits(s)
      [] token = "H"  -> parseHour23h(s)
      [] token = "h"  -> parseHour12h(s)
      [] token = "mm" -> parseTwoDigits(s)
      [] token = "a"  -> parseDayPeriod(s)
      [] OTHER -> IF StartsWith(s, <<token>>)
                  THEN [ok |-> TRUE, value |-> 0, rest |-> Slice(s, 1)]
                  ELSE NoParse

\* the fields a parse collects; -1 and "none" are "token not in the format"
NoFields == [ok |-> TRUE, rest |-> <<>>, H |-> -1, h |-> -1, mm |-> -1, a |-> "none"]

\* the fields after token t parsed to value v
setField(f, t, v) ==
    CASE t = "HH" \/ t = "H" -> [f EXCEPT !.H = v]
      [] t = "h"  -> [f EXCEPT !.h = v]
      [] t = "mm" -> [f EXCEPT !.mm = v]
      [] t = "a"  -> [f EXCEPT !.a = v]
      [] OTHER -> f

\* the tokens in turn, each against what the one before left; r is the parse of
\* the first token
RECURSIVE parseTokens(_, _, _)
parseNext(tokens, f, r) ==
    IF ~r.ok THEN [f EXCEPT !.ok = FALSE]
    ELSE parseTokens(Tail(tokens), r.rest, setField(f, Head(tokens), r.value))

parseTokens(tokens, s, f) ==
    IF tokens = <<>> THEN [f EXCEPT !.rest = s]
    ELSE parseNext(tokens, f, parseToken(Head(tokens), s))

InvalidDate == [valid |-> FALSE, hours |-> 0, minutes |-> 0]

\* (mutant) the hour as written, pm not added
hour12To24_keep(h, periodHours) == h

\* Hour1to12Parser.set after AMPMParser.set
hour12To24(h, periodHours) ==
    IF periodHours >= 12 /\ h < 12 THEN h + 12
    ELSE IF periodHours < 12 /\ h = 12 THEN 0
    ELSE h

\* the date of the parsed fields f, or Invalid Date
dateOfFields(f) ==
        IF ~f.ok THEN InvalidDate
        \* text left over that is not whitespace
        ELSE IF \E i \in 1..Len(f.rest) : ~IsSpace(f.rest[i]) THEN InvalidDate
        \* the setters' validate
        ELSE IF f.H # -1 /\ f.H > 23 THEN InvalidDate
        ELSE IF f.h # -1 /\ (f.h < 1 \/ f.h > 12) THEN InvalidDate
        ELSE IF f.mm # -1 /\ f.mm > 59 THEN InvalidDate
        ELSE [valid |-> TRUE,
              hours |-> IF f.H # -1 THEN f.H
                        ELSE hour12To24(f.h, dayPeriodEnumToHours(f.a)),
              minutes |-> IF f.mm = -1 THEN 0 ELSE f.mm]

\* parse(str, fmt, referenceDate): the time of day of the result, or Invalid Date
parse(str, tokens) == dateOfFields(parseTokens(tokens, str, NoFields))

isValid(d) == d.valid

\* (mutant) format(d, 'hh:mm'): the 12-hour clock
formatHHmm_12h(d) ==
    << DigitChar((IF d.hours % 12 = 0 THEN 12 ELSE d.hours % 12) \div 10),
       DigitChar((IF d.hours % 12 = 0 THEN 12 ELSE d.hours % 12) % 10), ":",
       DigitChar(d.minutes \div 10), DigitChar(d.minutes % 10) >>

\* format(d, 'HH:mm')
formatHHmm(d) ==
    << DigitChar(d.hours \div 10), DigitChar(d.hours % 10), ":",
       DigitChar(d.minutes \div 10), DigitChar(d.minutes % 10) >>

----------------------------------------------------------------------------
(* parseSmartTime *)

\* parsePart: the first format that yields a valid date wins; <<>> is null
parsePart(str) ==
    IF \A i \in 1..Len(formats) : ~isValid(parse(str, formats[i])) THEN <<>>
    ELSE formatHHmm(parse(str, formats[
            CHOOSE i \in 1..Len(formats) :
                /\ isValid(parse(str, formats[i]))
                /\ \A j \in 1..(i - 1) : ~isValid(parse(str, formats[j]))]))

\* null
NoMatch == [match |-> FALSE, start |-> <<>>, end |-> <<>>]

\* (mutant) if (start || end): one endpoint is enough
startAndEnd_either(start, end) ==
    IF start # <<>> \/ end # <<>>
    THEN [match |-> TRUE, start |-> start, end |-> end]
    ELSE NoMatch

\* if (start && end) return { start, end }; return null
startAndEnd(start, end) ==
    IF start # <<>> /\ end # <<>>
    THEN [match |-> TRUE, start |-> start, end |-> end]
    ELSE NoMatch

\* (mutant) if (parts.length < 2) return null: further parts are ignored
parseParts_atLeastTwo(parts) ==
    IF Len(parts) < 2 THEN NoMatch
    ELSE startAndEnd(parsePart(parts[1]), parsePart(parts[2]))

\* the parts of the cleaned text to a result
parseParts(parts) ==
    IF Len(parts) # 2 THEN NoMatch
    ELSE startAndEnd(parsePart(parts[1]), parsePart(parts[2]))

parseSmartTime(input) ==
    IF input = <<>> THEN NoMatch
    ELSE parseParts(splitParts(cleanInput(input)))

----------------------------------------------------------------------------
(* calculateDuration *)

\* differenceInMinutes(e, s) for two times of the same reference day
differenceInMinutes(e, s) == (e.hours * 60 + e.minutes) - (s.hours * 60 + s.minutes)

\* (mutant of toFixed2, defined next) the hundredths cut off, not rounded;
\* Number((diffMins / 60).toFixed(2)) in hundredths of an hour: the nearest
\* hundredth (diffMins * 100 / 60 is never half-way between two of them)
toFixed2_truncate(diffMins) == (diffMins * 10) \div 6

toFixed2(diffMins) == (diffMins * 10 + 3) \div 6

\* diffMins > 0 ? Number((diffMins / 60).toFixed(2)) : 0, for the dates s and e;
\* an Invalid Date makes diffMins NaN, and NaN > 0 is false
durationBetween(s, e) ==
    IF ~isValid(s) \/ ~isValid(e) THEN 0
    ELSE IF differenceInMinutes(e, s) > 0
         THEN toFixed2(differenceInMinutes(e, s))
         ELSE 0

\* the duration taken in whichever direction it is positive
calculateDuration_unsigned(start, end) ==
    IF start = <<>> \/ end = <<>> THEN 0
    ELSE durationBetween(parse(start, formats[1]), parse(end, formats[1]))
         + durationBetween(parse(end, formats[1]), parse(start, formats[1]))

calculateDuration(start, end) ==
    IF start = <<>> \/ end = <<>> THEN 0
    ELSE durationBetween(parse(start, formats[1]), parse(end, formats[1]))

\* the canonical text of a time of day
TimeText(h, m) == formatHHmm([valid |-> TRUE, hours |-> h, minutes |-> m])

----------------------------------------------------------------------------
(* The App: entries, backend rows and the requests between them *)

\* the calendar days the model distinguishes; todayStr is the day it runs on
Dates == {"2024-03-01", "2024-03-02"}

todayStr == "2024-03-02"

Types == {"time", "expense"}

\* the most rows the backend is ever asked to hold
MaxRows == 2

\* the most requests awaited at one time
MaxInFlight == 2

\* the most entries the earlier App adds under a temporary id
MaxTemp == 2

\* a row of the backend table entries; a null time is <<>>, and value is in
\* hundredths (of an hour, of a currency unit)
Row(id, date, type, content, value, start_time, end_time) ==
    [id |-> id, date |-> date, type |-> type, content |-> content,
     value |-> value, start_time |-> start_time, end_time |-> end_time]

\* a row of saved_options: only type and content are columns of that table
OptionRow(type, content) == Row(0, "", type, content, 0, <<>>, <<>>)

\* the entry the fetch builds from a row; the fields that are undefined for
\* the row's type are left out, and the earlier App reads no times
entryOfRow(v, row) ==
    IF row.type = "time"
    THEN [id |-> row.id, task |-> row.content, duration |-> row.value,
          startTime |-> IF v = "current" THEN row.start_time ELSE <<>>,
          endTime |-> IF v = "current" THEN row.end_time ELSE <<>>]
    ELSE [id |-> row.id, description |-> row.content, amount |-> row.value,
          startTime |-> IF v = "current" THEN row.start_time ELSE <<>>,
          endTime |-> IF v = "current" THEN row.end_time ELSE <<>>]

EmptyBucket == [time |-> <<>>, expense |-> <<>>]

\* entries[date] || { time: [], expense: [] }
bucketOf(m, date) == IF date \in DOMAIN m THEN m[date] ELSE EmptyBucket

\* { ...m, [date]: { ...bucket, [type]: [...bucket[type], e] } }
appendEntry(m, date, type, e) ==
    (date :> [bucketOf(m, date) EXCEPT ![type] = Append(@, e)]) @@ m

RECURSIVE nestFrom(_, _, _, _)
nestFrom(v, data, i, nestedData) ==
    IF i > Len(data) THEN nestedData
    ELSE nestFrom(v, data, i + 1,
                  appendEntry(nestedData, data[i].date, data[i].type,
                              entryOfRow(v, data[i])))

\* the nested map fetchEntries builds from the rows it was sent
nestRows(v, data) == nestFrom(v, data, 1, <<>>)

\* a removal that leaves out `...dateEntries`: the bucket keeps one list only
removeEntry_oneList(m, date, type, id) ==
    IF date \notin DOMAIN m THEN m
    ELSE (date :> (type :> SelectSeq(m[date][type], LAMBDA e : e.id # id))) @@ m

\* a removal that empties the list
removeEntry_all(m, date, type, id) ==
    IF date \notin DOMAIN m THEN m
    ELSE [m EXCEPT ![date][type] = <<>>]

\* the optimistic removal of deleteEntry
removeEntry(m, date, type, id) ==
    IF date \notin DOMAIN m THEN m
    ELSE [m EXCEPT ![date][type] = SelectSeq(@, LAMBDA e : e.id # id)]

\* the replacement of a temporary id by the inserted row's id in addEntry
swapTempId(m, date, type, tempId, id) ==
    [m EXCEPT ![date][type] =
        [i \in DOMAIN @ |-> IF @[i].id = tempId
                            THEN [@[i] EXCEPT !.id = id] ELSE @[i]]]

RECURSIVE optsFrom(_, _, _)
optsFrom(data, i, opts) ==
    IF i > Len(data) THEN opts
    ELSE optsFrom(data, i + 1,
                  IF data[i].type \in DOMAIN opts
                  THEN [opts EXCEPT ![data[i].type] = Append(@, data[i].content)]
                  ELSE opts)

\* the option lists fetchOptions builds from the rows it was sent
optsOfRows(data) == optsFrom(data, 1, EmptyBucket)

\* a request a handler awaits: state is "sent" until the backend has
\* answered "ok" or "error"; row, id, original and tempId are what the
\* handler holds for its continuation; data is the answer's rows
Req(op, row, id, original, tempId) ==
    [op |-> op, state |-> "sent", row |-> row, id |-> id,
     original |-> original, tempId |-> tempId, data |-> <<>>]

NoRow == Row(0, "", "", "", 0, <<>>, <<>>)

Send(n, r) == n (+) SetToBag({r})

Drop(n, r) == n (-) SetToBag({r})

Answer(n, r, state, data) ==
    Send(Drop(n, r), [r EXCEPT !.state = state, !.data = data])

Awaited(op, state) == { r \in BagToSet(net) : r.op = op /\ r.state = state }

CanSend(k) == BagCardinality(net) + k <= MaxInFlight

\* err.message of a failed request
ErrorMessage == "request failed"

\* the ids of the entries listed for a day and type
ListedIds(date, type) ==
    { bucketOf(entries, date)[type][i].id :
        i \in DOMAIN bucketOf(entries, date)[type] }

BlankForm ==
    [editingTimeId |-> 0, timeTask |-> "", smartTimeInput |-> <<>>,
     showPickers |-> FALSE, startTime |-> <<>>, endTime |-> <<>>,
     timeDuration |-> <<>>,
     editingExpId |-> 0, expDesc |-> "", expAmount |-> <<>>,
     expAmountIsNumber |-> FALSE]

\* renderView shows the day view and its forms (the earlier App has no
\* sign-in; its session is held from the start)
ViewsShown ==
    /\ ~crashed
    /\ error = "null"
    /\ IF variant = "current"
       THEN session /\ ~loadingSession
       ELSE ~(loadingData /\ DOMAIN entries = {})

\* the days whose entries the day view can list
ShownDates == IF variant = "current" THEN Dates ELSE {todayStr}

\* the form's state lives while the day view is mounted
KeepForm == form' = IF ViewsShown' THEN form ELSE BlankForm

\* the tables the backend may hold when the App starts
InitialTables ==
    { <<>>,
      << Row(1, todayStr, "time", "Write", 850, TimeText(9, 0), TimeText(17, 30)) >>,
      << Row(1, todayStr, "time", "Write", 850, TimeText(9, 0), TimeText(17, 30)),
         Row(2, "2024-03-01", "expense", "Coffee", 450, <<>>, <<>>) >> }

\* the state after the first render and its mount effect: the earlier App
\* has called fetchEntries(), the current one waits for the session
InitApp(v, table) ==
    /\ variant = v
    /\ currentView = "today"
    /\ selectedDate = todayStr
    /\ session = (v = "earlier")
    /\ loadingSession = (v = "current")
    /\ entries = <<>>
    /\ savedOptions = EmptyBucket
    /\ loadingData = (v = "earlier")
    /\ error = "null"
    /\ crashed = FALSE
    /\ alertMsg = "none"
    /\ form = BlankForm
    /\ rows = table
    /\ optionRows = <<>>
    /\ nextId = Len(table) + 1
    /\ nextTemp = 1
    /\ net = IF v = "earlier"
             THEN SetToBag({Req("select", NoRow, 0, <<>>, 0)})
             ELSE EmptyBag

PureIdle ==
    /\ call = [fn |-> "none", a |-> <<>>, b |-> <<>>]
    /\ ret = NoMatch
    /\ pc = "idle"

Init ==
    /\ \E v \in {"current", "earlier"}, table \in InitialTables : InitApp(v, table)
    /\ PureIdle

\* supabase.auth.getSession().then(...)
GetSessionResolved(s) ==
    /\ variant = "current"
    /\ loadingSession
    /\ session' = s
    /\ loadingSession' = FALSE
    /\ alertMsg' = "none"
    /\ UNCHANGED <<variant, currentView, selectedDate,
                   entries, savedOptions, loadingData, error, crashed,
                   rows, optionRows, nextId, nextTemp, net>>
    /\ KeepForm
    /\ UNCHANGED pureVars

\* the onAuthStateChange callback; with a session it calls fetchEntries()
\* and fetchOptions(), which run up to their await
AuthStateChange(s) ==
    /\ variant = "current"
    /\ session' = s
    /\ IF s
       THEN /\ CanSend(2)
            /\ loadingData' = TRUE
            /\ net' = Send(Send(net, Req("select", NoRow, 0, <<>>, 0)),
                           Req("selectOptions", NoRow, 0, <<>>, 0))
            /\ UNCHANGED <<entries, savedOptions>>
       ELSE /\ entries' = <<>>
            /\ savedOptions' = EmptyBucket
            /\ UNCHANGED <<loadingData, net>>
    /\ alertMsg' = "none"
    /\ UNCHANGED <<variant, currentView, selectedDate,
                   loadingSession, error, crashed,
                   rows, optionRows, nextId, nextTemp>>
    /\ KeepForm
    /\ UNCHANGED pureVars

\* the backend fails a request: nothing is applied, the handler gets an error
BackendError ==
    /\ \E r \in { q \in BagToSet(net) : q.state = "sent" } :
         net' = Answer(net, r, "error", <<>>)
    /\ UNCHANGED <<variant, currentView, selectedDate,
                   session, loadingSession, entries, savedOptions,
                   loadingData, error, crashed, alertMsg, form,
                   rows, optionRows, nextId, nextTemp>>
    /\ UNCHANGED pureVars

\* from('entries').select('*').order('created_at')
BackendSelect ==
    /\ \E r \in Awaited("select", "sent") : net' = Answer(net, r, "ok", rows)
    /\ UNCHANGED <<variant, currentView, selectedDate,
                   session, loadingSession, entries, savedOptions,
                   loadingData, error, crashed, alertMsg, form,
                   rows, optionRows, nextId, nextTemp>>
    /\ UNCHANGED pureVars

\* a fetch whose success clears the error
errorAfterFetch_cleared(current, state) ==
    IF state = "ok" THEN "null" ELSE ErrorMessage

\* the error state after fetchEntries has run to its end: setError is called
\* in the catch only
errorAfterFetch(current, state) ==
    IF state = "ok" THEN current ELSE ErrorMessage

\* fetchEntries after its await
FetchEntriesSettle ==
    /\ ~crashed
    /\ \E r \in Awaited("select", "ok") \cup Awaited("select", "error") :
         /\ IF r.state = "ok"
            THEN entries' = nestRows(variant, r.data)
            ELSE UNCHANGED entries
         /\ error' = errorAfterFetch(error, r.state)
         /\ net' = Drop(net, r)
    /\ loadingData' = FALSE
    /\ alertMsg' = "none"
    /\ UNCHANGED <<variant, currentView, selectedDate,
                   session, loadingSession, savedOptions, crashed,
                   rows, optionRows, nextId, nextTemp>>
    /\ KeepForm
    /\ UNCHANGED pureVars

\* from('saved_options').select('*')
BackendSelectOptions ==
    /\ \E r \in Awaited("selectOptions", "sent") :
         net' = Answer(net, r, "ok", optionRows)
    /\ UNCHANGED <<variant, currentView, selectedDate,
                   session, loadingSession, entries, savedOptions,
                   loadingData, error, crashed, alertMsg, form,
                   rows, optionRows, nextId, nextTemp>>
    /\ UNCHANGED pureVars

\* fetchOptions after its await; an error is only logged
FetchOptionsSettle ==
    /\ ~crashed
    /\ \E r \in Awaited("selectOptions", "ok") \cup Awaited("selectOptions", "error") :
         /\ IF r.state = "ok"
            THEN savedOptions' = optsOfRows(r.data)
            ELSE UNCHANGED savedOptions
         /\ net' = Drop(net, r)
    /\ alertMsg' = "none"
    /\ UNCHANGED <<variant, currentView, selectedDate,
                   session, loadingSession, entries, loadingData,
                   error, crashed, form, rows, optionRows, nextId, nextTemp>>
    /\ UNCHANGED pureVars

\* the most options kept in a list of saved options
MaxOptions == 2

\* what the forms hand to saveEntry and addEntry once they have validated it
TimeInputs ==
    { [task |-> "Read", startTime |-> TimeText(9, 0),
       endTime |-> TimeText(10, 0), duration |-> 100] }

ExpenseInputs == { [description |-> "Coffee", amount |-> 450] }

FormInputs(type) == IF type = "time" THEN TimeInputs ELSE ExpenseInputs

\* dbRow of saveEntry
dbRow(date, type, data) ==
    Row(0, date, type,
        IF type = "time" THEN data.task ELSE data.description,
        IF type = "time" THEN data.duration ELSE data.amount,
        IF type = "time" THEN data.startTime ELSE <<>>,
        IF type = "time" THEN data.endTime ELSE <<>>)

\* a saveEntry that inserts whatever editingId is
saveEntryRequest_insert(date, type, data, editingId) ==
    Req("insert", dbRow(date, type, data), editingId, <<>>, 0)

\* saveEntry up to its await: an update when editingId is set, else an insert
saveEntryRequest(date, type, data, editingId) ==
    Req(IF editingId # 0 THEN "update" ELSE "insert",
        dbRow(date, type, data), editingId, <<>>, 0)

\* saveEntry up to its await, as a form of the day view calls it (the form
\* resets its own fields after the call)
saveEntry(date, type, data, editingId) ==
    /\ variant = "current"
    /\ ViewsShown
    /\ net' = Send(net, saveEntryRequest(date, type, data, editingId))
    /\ alertMsg' = "none"
    /\ UNCHANGED <<variant, currentView, selectedDate,
                   session, loadingSession, entries, savedOptions,
                   loadingData, error, crashed,
                   rows, optionRows, nextId, nextTemp>>
    /\ UNCHANGED pureVars

\* from('entries').insert([dbRow])
BackendInsert ==
    /\ nextId <= MaxRows
    /\ \E r \in Awaited("insert", "sent") :
         /\ rows' = Append(rows, [r.row EXCEPT !.id = nextId])
         /\ net' = Answer(net, r, "ok", <<>>)
    /\ nextId' = nextId + 1
    /\ UNCHANGED <<variant, currentView, selectedDate,
                   session, loadingSession, entries, savedOptions,
                   loadingData, error, crashed, alertMsg, form,
                   optionRows, nextTemp>>
    /\ UNCHANGED pureVars

\* from('entries').update(dbRow).eq('id', editingId)
BackendUpdate ==
    /\ \E r \in Awaited("update", "sent") :
         /\ rows' = [i \in DOMAIN rows |->
                        IF rows[i].id = r.id
                        THEN [r.row EXCEPT !.id = r.id] ELSE rows[i]]
         /\ net' = Answer(net, r, "ok", <<>>)
    /\ UNCHANGED <<variant, currentView, selectedDate,
                   session, loadingSession, entries, savedOptions,
                   loadingData, error, crashed, alertMsg, form,
                   optionRows, nextId, nextTemp>>
    /\ UNCHANGED pureVars

\* saveEntry after its await: fetchEntries() up to its await, or the alert
SaveEntrySettle ==
    /\ ~crashed
    /\ \E r \in Awaited("insert", "ok") \cup Awaited("update", "ok")
                \cup Awaited("insert", "error") \cup Awaited("update", "error") :
         IF r.state = "ok"
         THEN /\ loadingData' = TRUE
              /\ net' = Send(Drop(net, r), Req("select", NoRow, 0, <<>>, 0))
              /\ alertMsg' = "none"
         ELSE /\ alertMsg' = "Failed to save. request failed"
              /\ net' = Drop(net, r)
              /\ UNCHANGED loadingData
    /\ UNCHANGED <<variant, currentView, selectedDate,
                   session, loadingSession, entries, savedOptions,
                   error, crashed, rows, optionRows, nextId, nextTemp>>
    /\ KeepForm
    /\ UNCHANGED pureVars

\* deleteEntry up to its await: the closure's entries are kept for the
\* rollback and the entry is removed from the list
deleteEntry(date, type, id) ==
    /\ ViewsShown
    /\ CanSend(1)
    /\ entries' = removeEntry(entries, date, type, id)
    /\ net' = Send(net, Req("delete", NoRow, id, entries, 0))
    /\ alertMsg' = "none"
    /\ UNCHANGED <<variant, currentView, selectedDate,
                   session, loadingSession, savedOptions,
                   loadingData, error, crashed,
                   rows, optionRows, nextId, nextTemp>>
    /\ KeepForm
    /\ UNCHANGED pureVars

\* from('entries').delete().eq('id', id)
BackendDelete ==
    /\ \E r \in Awaited("delete", "sent") :
         /\ rows' = SelectSeq(rows, LAMBDA row : row.id # r.id)
         /\ net' = Answer(net, r, "ok", <<>>)
    /\ UNCHANGED <<variant, currentView, selectedDate,
                   session, loadingSession, entries, savedOptions,
                   loadingData, error, crashed, alertMsg, form,
                   optionRows, nextId, nextTemp>>
    /\ UNCHANGED pureVars

\* the alert of deleteEntry's catch
DeleteFailedAlert(v) ==
    IF v = "current" THEN "Failed to delete." ELSE "Failed to delete from cloud."

\* what deleteEntry's catch sets the entries to
rollbackEntries_keep(current, original) == current

rollbackEntries(current, original) == original

\* deleteEntry after its await: nothing more on success, alert and rollback
\* on error
DeleteEntrySettle ==
    /\ ~crashed
    /\ \E r \in Awaited("delete", "ok") \cup Awaited("delete", "error") :
         /\ IF r.state = "ok"
            THEN alertMsg' = "none" /\ UNCHANGED entries
            ELSE /\ alertMsg' = DeleteFailedAlert(variant)
                 /\ entries' = rollbackEntries(entries, r.original)
         /\ net' = Drop(net, r)
    /\ UNCHANGED <<variant, currentView, selectedDate,
                   session, loadingSession, savedOptions,
                   loadingData, error, crashed,
                   rows, optionRows, nextId, nextTemp>>
    /\ KeepForm
    /\ UNCHANGED pureVars

\* saveNewOption up to its await (it returns at once on an empty content)
saveNewOption(type, content) ==
    /\ variant = "current"
    /\ ViewsShown
    /\ content # ""
    /\ CanSend(1)
    /\ Len(savedOptions[type]) < MaxOptions
    /\ Len(optionRows) + Cardinality(Awaited("insertOption", "sent")) < MaxOptions
    /\ savedOptions' = [savedOptions EXCEPT ![type] = Append(@, content)]
    /\ net' = Send(net, Req("insertOption", OptionRow(type, content), 0, <<>>, 0))
    /\ alertMsg' = "none"
    /\ UNCHANGED <<variant, currentView, selectedDate,
                   session, loadingSession, entries,
                   loadingData, error, crashed, form,
                   rows, optionRows, nextId, nextTemp>>
    /\ UNCHANGED pureVars

\* from('saved_options').insert([{ type, content }])
BackendInsertOption ==
    /\ \E r \in Awaited("insertOption", "sent") :
         /\ optionRows' = Append(optionRows, r.row)
         /\ net' = Answer(net, r, "ok", <<>>)
    /\ UNCHANGED <<variant, currentView, selectedDate,
                   session, loadingSession, entries, savedOptions,
                   loadingData, error, crashed, alertMsg, form,
                   rows, nextId, nextTemp>>
    /\ UNCHANGED pureVars

\* saveNewOption after its await: the catch only logs and alerts
SaveNewOptionSettle ==
    /\ ~crashed
    /\ \E r \in Awaited("insertOption", "ok") \cup Awaited("insertOption", "error") :
         /\ alertMsg' = IF r.state = "ok" THEN "none"
                        ELSE "Could not save default option. request failed"
         /\ net' = Drop(net, r)
    /\ UNCHANGED <<variant, currentView, selectedDate,
                   session, loadingSession, entries, savedOptions,
                   loadingData, error, crashed, form,
                   rows, optionRows, nextId, nextTemp>>
    /\ UNCHANGED pureVars

\* { id: tempId, ...data }
optimisticEntry(tempId, type, data) ==
    IF type = "time"
    THEN [id |-> tempId, task |-> data.task, duration |-> data.duration,
          startTime |-> <<>>, endTime |-> <<>>]
    ELSE [id |-> tempId, description |-> data.description, amount |-> data.amount,
          startTime |-> <<>>, endTime |-> <<>>]

\* dbRow of addEntry: no times are sent
addRow(date, type, data) ==
    Row(0, date, type,
        IF type = "time" THEN data.task ELSE data.description,
        IF type = "time" THEN data.duration ELSE data.amount,
        <<>>, <<>>)

\* addEntry of the earlier App up to its await, as a form of TodayView calls
\* it (the form resets its own fields after the call); the temporary ids
\* (Date.now() in the code) are the negative numbers, apart from every
\* backend id
addEntry(date, type, data) ==
    /\ variant = "earlier"
    /\ ViewsShown
    /\ nextTemp <= MaxTemp
    /\ entries' = appendEntry(entries, date, type,
                              optimisticEntry(0 - nextTemp, type, data))
    /\ net' = Send(net, Req("insertSelect", addRow(date, type, data),
                            0, <<>>, 0 - nextTemp))
    /\ nextTemp' = nextTemp + 1
    /\ alertMsg' = "none"
    /\ UNCHANGED <<variant, currentView, selectedDate,
                   session, loadingSession, savedOptions,
                   loadingData, error, crashed, rows, optionRows, nextId>>
    /\ UNCHANGED pureVars

\* from('entries').insert([dbRow]).select().single()
BackendInsertSelect ==
    /\ nextId <= MaxRows
    /\ \E r \in Awaited("insertSelect", "sent") :
         /\ rows' = Append(rows, [r.row EXCEPT !.id = nextId])
         /\ net' = Answer(net, r, "ok", << [r.row EXCEPT !.id = nextId] >>)
    /\ nextId' = nextId + 1
    /\ UNCHANGED <<variant, currentView, selectedDate,
                   session, loadingSession, entries, savedOptions,
                   loadingData, error, crashed, alertMsg, form,
                   optionRows, nextTemp>>
    /\ UNCHANGED pureVars

\* addEntry after its await: the temporary id is replaced (the updater throws
\* when the day's bucket is gone, and the tree unmounts), or the alert and
\* fetchEntries() up to its await
AddEntrySettle ==
    /\ ~crashed
    /\ \E r \in Awaited("insertSelect", "ok") \cup Awaited("insertSelect", "error") :
         IF r.state = "ok"
         THEN /\ IF r.row.date \in DOMAIN entries
                 THEN /\ entries' = swapTempId(entries, r.row.date, r.row.type,
                                               r.tempId, r.data[1].id)
                      /\ UNCHANGED crashed
                 ELSE crashed' = TRUE /\ UNCHANGED entries
              /\ net' = Drop(net, r)
              /\ alertMsg' = "none"
              /\ UNCHANGED loadingData
         ELSE /\ alertMsg' = "Failed to save entry to cloud. Please try again."
              /\ loadingData' = TRUE
              /\ net' = Send(Drop(net, r), Req("select", NoRow, 0, <<>>, 0))
              /\ UNCHANGED <<entries, crashed>>
    /\ UNCHANGED <<variant, currentView, selectedDate,
                   session, loadingSession, savedOptions, error,
                   rows, optionRows, nextId, nextTemp>>
    /\ KeepForm
    /\ UNCHANGED pureVars

----------------------------------------------------------------------------
(* The time form of the day view *)

\* the most requests awaited when the time form is submitted
MaxFormSaves == 1

\* what is typed into the task field ("" is the emptied field)
TaskTexts == {"", "Write"}

\* what is typed into the smart time field
SmartTexts ==
    { <<"9","a","m"," ","t","o"," ","5","p","m">>,
      <<"5","p","m"," ","t","o"," ","9","a","m">>,
      <<"9",":","0","0","-","1","7",":","0","0">> }

\* what the time pickers are set to (<<>> is the cleared picker)
PickerTimes == { <<>>, TimeText(9, 0) }

\* what is typed into the duration field of TodayView, a number input
DurationTexts == { <<>>, <<"2",".","5">>, <<"-","1">> }

\* the effect on [startTime, endTime]: when one of them changed and both are
\* set, the smart field shows `${startTime} - ${endTime}`
withTimes(f, start, end) ==
    [f EXCEPT !.startTime = start, !.endTime = end,
              !.smartTimeInput =
                  IF (start # f.startTime \/ end # f.endTime)
                     /\ start # <<>> /\ end # <<>>
                  THEN start \o <<" ", "-", " ">> \o end
                  ELSE @]

\* `${t}` for a time that may be null
timeInTemplate(t) == IF t = <<>> THEN <<"n","u","l","l">> ELSE t

RECURSIVE digitsValue(_, _, _)
\* the number written by the digits of s from index i on, after acc
digitsValue(s, i, acc) ==
    IF i > Len(s) \/ ~IsDigit(s[i]) THEN acc
    ELSE digitsValue(s, i + 1, acc * 10 + DigitVal(s[i]))

RECURSIVE digitsEnd(_, _)
digitsEnd(s, i) ==
    IF i > Len(s) \/ ~IsDigit(s[i]) THEN i ELSE digitsEnd(s, i + 1)

\* the hundredths written after the decimal point at index i (two decimals)
fractionValue(s, i) ==
    IF i > Len(s) \/ s[i] # "." THEN 0
    ELSE (IF i + 1 <= Len(s) /\ IsDigit(s[i + 1]) THEN 10 * DigitVal(s[i + 1]) ELSE 0)
         + (IF i + 2 <= Len(s) /\ IsDigit(s[i + 1]) /\ IsDigit(s[i + 2])
            THEN DigitVal(s[i + 2]) ELSE 0)

unsignedValue(s) ==
    100 * digitsValue(s, 1, 0) + fractionValue(s, digitsEnd(s, 1))

\* parseFloat of the text of a number input, in hundredths
parseFloat(s) ==
    IF s # <<>> /\ s[1] = "-" THEN 0 - unsignedValue(Tail(s))
    ELSE unsignedValue(s)

setTimeTask(t) ==
    /\ ViewsShown
    /\ form' = [form EXCEPT !.timeTask = t]
    /\ alertMsg' = "none"
    /\ UNCHANGED <<variant, currentView, selectedDate,
                   session, loadingSession, entries, savedOptions,
                   loadingData, error, crashed,
                   rows, optionRows, nextId, nextTemp, net>>
    /\ UNCHANGED pureVars

setSmartTimeInput(text) ==
    /\ variant = "current"
    /\ ViewsShown
    /\ form' = [form EXCEPT !.smartTimeInput = text]
    /\ alertMsg' = "none"
    /\ UNCHANGED <<variant, currentView, selectedDate,
                   session, loadingSession, entries, savedOptions,
                   loadingData, error, crashed,
                   rows, optionRows, nextId, nextTemp, net>>
    /\ UNCHANGED pureVars

\* a blur that puts a whole working day in place of a text it cannot read
blurredForm_default(f, parsed) ==
    IF parsed.match THEN withTimes(f, parsed.start, parsed.end)
    ELSE withTimes(f, TimeText(9, 0), TimeText(17, 0))

blurredForm(f, parsed) ==
    IF parsed.match THEN withTimes(f, parsed.start, parsed.end) ELSE f

handleSmartInputBlur ==
    /\ variant = "current"
    /\ ViewsShown
    /\ form' = blurredForm(form, parseSmartTime(form.smartTimeInput))
    /\ alertMsg' = "none"
    /\ UNCHANGED <<variant, currentView, selectedDate,
                   session, loadingSession, entries, savedOptions,
                   loadingData, error, crashed,
                   rows, optionRows, nextId, nextTemp, net>>
    /\ UNCHANGED pureVars

\* setShowPickers(!showPickers)
toggleShowPickers ==
    /\ variant = "current"
    /\ ViewsShown
    /\ form' = [form EXCEPT !.showPickers = ~@]
    /\ alertMsg' = "none"
    /\ UNCHANGED <<variant, currentView, selectedDate,
                   session, loadingSession, entries, savedOptions,
                   loadingData, error, crashed,
                   rows, optionRows, nextId, nextTemp, net>>
    /\ UNCHANGED pureVars

setStartTime(t) ==
    /\ variant = "current"
    /\ ViewsShown
    /\ form.showPickers
    /\ form' = withTimes(form, t, form.endTime)
    /\ alertMsg' = "none"
    /\ UNCHANGED <<variant, currentView, selectedDate,
                   session, loadingSession, entries, savedOptions,
                   loadingData, error, crashed,
                   rows, optionRows, nextId, nextTemp, net>>
    /\ UNCHANGED pureVars

setEndTime(t) ==
    /\ variant = "current"
    /\ ViewsShown
    /\ form.showPickers
    /\ form' = withTimes(form, form.startTime, t)
    /\ alertMsg' = "none"
    /\ UNCHANGED <<variant, currentView, selectedDate,
                   session, loadingSession, entries, savedOptions,
                   loadingData, error, crashed,
                   rows, optionRows, nextId, nextTemp, net>>
    /\ UNCHANGED pureVars

\* handleTimeSubmit of DayDetailView, shown for the day date
DayDetailView_handleTimeSubmit(date) ==
    /\ variant = "current"
    /\ ViewsShown
    /\ IF form.timeTask = "" \/ form.startTime = <<>> \/ form.endTime = <<>>
       THEN /\ alertMsg' = "none"
            /\ UNCHANGED <<allButAlert, pureVars>>
       ELSE IF calculateDuration(form.startTime, form.endTime) <= 0
       THEN /\ alertMsg' = "End time must be after start time"
            /\ UNCHANGED <<allButAlert, pureVars>>
       ELSE /\ BagCardinality(net) < MaxFormSaves
            /\ saveEntry(date, "time",
                         [task |-> form.timeTask, startTime |-> form.startTime,
                          endTime |-> form.endTime,
                          duration |-> calculateDuration(form.startTime, form.endTime)],
                         form.editingTimeId)
            /\ form' = BlankForm

startEditTime(item) ==
    /\ variant = "current"
    /\ ViewsShown
    /\ form' = [form EXCEPT !.timeTask = item.task,
                            !.startTime = item.startTime,
                            !.endTime = item.endTime,
                            !.smartTimeInput = timeInTemplate(item.startTime)
                                \o <<" ", "-", " ">> \o timeInTemplate(item.endTime),
                            !.editingTimeId = item.id]
    /\ alertMsg' = "none"
    /\ UNCHANGED <<variant, currentView, selectedDate,
                   session, loadingSession, entries, savedOptions,
                   loadingData, error, crashed,
                   rows, optionRows, nextId, nextTemp, net>>
    /\ UNCHANGED pureVars

\* the Cancel button is shown while an entry is edited
cancelEditTime ==
    /\ variant = "current"
    /\ ViewsShown
    /\ form.editingTimeId # 0
    /\ form' = BlankForm
    /\ alertMsg' = "none"
    /\ UNCHANGED <<variant, currentView, selectedDate,
                   session, loadingSession, entries, savedOptions,
                   loadingData, error, crashed,
                   rows, optionRows, nextId, nextTemp, net>>
    /\ UNCHANGED pureVars

setTimeDuration(text) ==
    /\ variant = "earlier"
    /\ ViewsShown
    /\ form' = [form EXCEPT !.timeDuration = text]
    /\ alertMsg' = "none"
    /\ UNCHANGED <<variant, currentView, selectedDate,
                   session, loadingSession, entries, savedOptions,
                   loadingData, error, crashed,
                   rows, optionRows, nextId, nextTemp, net>>
    /\ UNCHANGED pureVars

\* handleTimeSubmit of TodayView: the typed duration is handed on as it is
TodayView_handleTimeSubmit ==
    /\ variant = "earlier"
    /\ ViewsShown
    /\ IF form.timeTask = "" \/ form.timeDuration = <<>>
       THEN /\ alertMsg' = "none"
            /\ UNCHANGED <<allButAlert, pureVars>>
       ELSE /\ BagCardinality(net) < MaxFormSaves
            /\ addEntry(todayStr, "time",
                        [task |-> form.timeTask,
                         duration |-> parseFloat(form.timeDuration)])
            /\ form' = BlankForm

----------------------------------------------------------------------------
(* The expense form of the day view *)

\* what is typed into the description field ("" is the emptied field)
DescTexts == {"", "Coffee"}

\* what is typed into the amount field, a number input
AmountTexts == { <<>>, <<"4",".","5">>, <<"-","5">>, <<"0">> }

RECURSIVE digitsText(_)
\* the decimal digits of a natural number
digitsText(n) ==
    IF n < 10 THEN <<DigitChar(n)>>
    ELSE Append(digitsText(n \div 10), DigitChar(n % 10))

\* the decimals String() writes for f hundredths (none, one or two)
fractionText(f) ==
    IF f = 0 THEN <<>>
    ELSE IF f % 10 = 0 THEN <<".", DigitChar(f \div 10)>>
    ELSE <<".", DigitChar(f \div 10), DigitChar(f % 10)>>

\* String(x) of a number x given in hundredths
numberText(n) ==
    IF n < 0
    THEN <<"-">> \o digitsText((0 - n) \div 100) \o fractionText((0 - n) % 100)
    ELSE digitsText(n \div 100) \o fractionText(n % 100)

\* !expAmount: the empty text, or the number 0 that startEditExp has put there
amountIsFalsy(f) ==
    \/ f.expAmount = <<>>
    \/ f.expAmountIsNumber /\ parseFloat(f.expAmount) = 0

setExpDesc(t) ==
    /\ ViewsShown
    /\ form' = [form EXCEPT !.expDesc = t]
    /\ alertMsg' = "none"
    /\ UNCHANGED <<variant, currentView, selectedDate,
                   session, loadingSession, entries, savedOptions,
                   loadingData, error, crashed,
                   rows, optionRows, nextId, nextTemp, net>>
    /\ UNCHANGED pureVars

setExpAmount(text) ==
    /\ ViewsShown
    /\ form' = [form EXCEPT !.expAmount = text, !.expAmountIsNumber = FALSE]
    /\ alertMsg' = "none"
    /\ UNCHANGED <<variant, currentView, selectedDate,
                   session, loadingSession, entries, savedOptions,
                   loadingData, error, crashed,
                   rows, optionRows, nextId, nextTemp, net>>
    /\ UNCHANGED pureVars

\* the expense fields emptied after a submit or a cancel
withoutExpense(f) ==
    [f EXCEPT !.expDesc = "", !.expAmount = <<>>, !.expAmountIsNumber = FALSE,
              !.editingExpId = 0]

\* handleExpSubmit of DayDetailView, shown for the day date
DayDetailView_handleExpSubmit(date) ==
    /\ variant = "current"
    /\ ViewsShown
    /\ IF form.expDesc = "" \/ amountIsFalsy(form)
       THEN /\ alertMsg' = "none"
            /\ UNCHANGED <<allButAlert, pureVars>>
       ELSE /\ BagCardinality(net) < MaxFormSaves
            /\ saveEntry(date, "expense",
                         [description |-> form.expDesc,
                          amount |-> parseFloat(form.expAmount)],
                         form.editingExpId)
            /\ form' = withoutExpense(form)

\* setExpAmount(item.amount) puts the number itself into the field
startEditExp(item) ==
    /\ variant = "current"
    /\ ViewsShown
    /\ form' = [form EXCEPT !.expDesc = item.description,
                            !.expAmount = numberText(item.amount),
                            !.expAmountIsNumber = TRUE,
                            !.editingExpId = item.id]
    /\ alertMsg' = "none"
    /\ UNCHANGED <<variant, currentView, selectedDate,
                   session, loadingSession, entries, savedOptions,
                   loadingData, error, crashed,
                   rows, optionRows, nextId, nextTemp, net>>
    /\ UNCHANGED pureVars

\* the Cancel button is shown while an expense is edited
cancelEditExp ==
    /\ variant = "current"
    /\ ViewsShown
    /\ form.editingExpId # 0
    /\ form' = withoutExpense(form)
    /\ alertMsg' = "none"
    /\ UNCHANGED <<variant, currentView, selectedDate,
                   session, loadingSession, entries, savedOptions,
                   loadingData, error, crashed,
                   rows, optionRows, nextId, nextTemp, net>>
    /\ UNCHANGED pureVars

\* handleExpSubmit of TodayView
TodayView_handleExpSubmit ==
    /\ variant = "earlier"
    /\ ViewsShown
    /\ IF form.expDesc = "" \/ amountIsFalsy(form)
       THEN /\ alertMsg' = "none"
            /\ UNCHANGED <<allButAlert, pureVars>>
       ELSE /\ BagCardinality(net) < MaxFormSaves
            /\ addEntry(todayStr, "expense",
                        [description |-> form.expDesc,
                         amount |-> parseFloat(form.expAmount)])
            /\ form' = withoutExpense(form)

----------------------------------------------------------------------------
(* Calendar days and the date-fns range functions                          *)
(* A Date is held as its local calendar day, counted from 1 January of     *)
(* FirstYear; the functions below never look at its time of day.           *)

\* the day the count starts from: 1 January 2023, a Sunday
Epoch == [year |-> 2023, weekday |-> 0]

FirstYear == Epoch.year

\* the last year the calendar covers
LastYear == 2025

isLeapYear(y) == (y % 4 = 0 /\ y % 100 # 0) \/ y % 400 = 0

getDaysInMonth(y, m) ==
    IF m = 2 THEN (IF isLeapYear(y) THEN 29 ELSE 28)
    ELSE IF m \in {4, 6, 9, 11} THEN 30 ELSE 31

getDaysInYear(y) == IF isLeapYear(y) THEN 366 ELSE 365

RECURSIVE daysBeforeYear(_)
daysBeforeYear(y) ==
    IF y <= FirstYear THEN 0 ELSE daysBeforeYear(y - 1) + getDaysInYear(y - 1)

RECURSIVE daysBeforeMonth(_, _)
daysBeforeMonth(y, m) ==
    IF m <= 1 THEN 0 ELSE daysBeforeMonth(y, m - 1) + getDaysInMonth(y, m - 1)

\* new Date(y, m - 1, d), also for d = 0 (the day before the 1st)
dayOf(y, m, d) == daysBeforeYear(y) + daysBeforeMonth(y, m) + d - 1

CalendarDays == 0 .. (daysBeforeYear(LastYear + 1) - 1)

getFullYear(n) ==
    CHOOSE y \in FirstYear .. LastYear :
        daysBeforeYear(y) <= n /\ n < daysBeforeYear(y + 1)

\* the month of a day, 1 for January
getMonth(n) ==
    CHOOSE m \in 1 .. 12 :
        /\ dayOf(getFullYear(n), m, 1) <= n
        /\ n < dayOf(getFullYear(n), m, 1) + getDaysInMonth(getFullYear(n), m)

getDate(n) == n - dayOf(getFullYear(n), getMonth(n), 1) + 1

\* 0 for Sunday .. 6 for Saturday
getDay(n) == (n + Epoch.weekday) % 7

\* a week counted from its Sunday whatever weekStartsOn says
startOfWeek_sunday(n, weekStartsOn) == n - getDay(n)

\* startOfWeek(date, { weekStartsOn }): back to the last day of that weekday
startOfWeek(n, weekStartsOn) ==
    n - ((IF getDay(n) < weekStartsOn THEN 7 ELSE 0) + getDay(n) - weekStartsOn)

endOfWeek(n, weekStartsOn) ==
    n + ((IF getDay(n) < weekStartsOn THEN 0 - 7 ELSE 0)
         + 6 - (getDay(n) - weekStartsOn))

startOfMonth(n) == dayOf(getFullYear(n), getMonth(n), 1)

\* setFullYear(year, month + 1, 0)
endOfMonth(n) ==
    dayOf(getFullYear(n), getMonth(n), getDaysInMonth(getFullYear(n), getMonth(n)))

startOfYear(n) == dayOf(getFullYear(n), 1, 1)

endOfYear(n) == dayOf(getFullYear(n), 12, 31)

\* a number written with at least two digits
twoDigits(k) == IF k < 10 THEN "0" \o ToString(k) ELSE ToString(k)

\* format(day, 'yyyy-MM-dd')
format_yyyyMMdd(n) ==
    ToString(getFullYear(n)) \o "-" \o twoDigits(getMonth(n)) \o "-"
        \o twoDigits(getDate(n))

\* format(day, 'yyyy-MM-dd') of every day of the calendar, worked out once
formatted == [n \in CalendarDays |-> format_yyyyMMdd(n)]

\* the days from a to b, in order
daysFrom(a, b) == [i \in 1 .. (b - a + 1) |-> a + i - 1]

RECURSIVE reverse(_)
reverse(s) == IF s = <<>> THEN <<>> ELSE Append(reverse(Tail(s)), Head(s))

\* what eachDayOfInterval gives for a start after the end depends on the
\* date-fns release installed: up to 2.x it throws RangeError("Invalid
\* interval"), from 3.0 on it returns the days from start back to end
DateFnsReleases == {"v2", "v3"}

\* an interval taken without its first and last day
eachDayOfInterval_open(release, start, end) ==
    [threw |-> FALSE, days |-> daysFrom(start + 1, end - 1)]

eachDayOfInterval(release, start, end) ==
    IF start <= end THEN [threw |-> FALSE, days |-> daysFrom(start, end)]
    ELSE IF release = "v2" THEN [threw |-> TRUE, days |-> <<>>]
    ELSE [threw |-> FALSE, days |-> reverse(daysFrom(end, start))]

\* the local clock is behind UTC (the Americas) or not (UTC and east of it)
TimeZones == {"behindUTC", "UTCorAhead"}

\* new Date(text) for a date-only text ('yyyy-MM-dd', or 'yyyy-MM' for the
\* first of the month): midnight UTC of that day, which is the evening of the
\* day before on a clock behind UTC
newDateOfText(zone, text) ==
    (CHOOSE n \in CalendarDays :
        formatted[n] = text \/ (formatted[n] = text \o "-01"))
    - (IF zone = "behindUTC" THEN 1 ELSE 0)

----------------------------------------------------------------------------
(* SummaryView: the range, the fold over its days and the ranked lists     *)
(* A summary object is the sequence of its [key, value] properties in the  *)
(* order they were created.                                                 *)

\* the SummaryView of components/SummaryView.jsx, the one inside App.jsx
\* and the one of unnamed/part_000
SummaryViews == {"component", "inline", "part_000"}

SummaryTypes == {"week", "month", "year"}

\* the date prop left out
NoDate == 0 - 1

\* const current = date ? new Date(date) : new Date(); the other two views
\* always take new Date()
currentOf(view, date, now) ==
    IF view = "component" /\ date # NoDate THEN date ELSE now

rangeStart(view, type, current) ==
    IF type = "week" THEN startOfWeek(current, 1)
    ELSE IF type = "month" \/ view # "component" THEN startOfMonth(current)
    ELSE startOfYear(current)

rangeEnd(view, type, current) ==
    IF type = "week" THEN endOfWeek(current, 1)
    ELSE IF type = "month" \/ view # "component" THEN endOfMonth(current)
    ELSE endOfYear(current)

hasKey(o, k) == \E i \in DOMAIN o : o[i].key = k

\* o[k] = (o[k] || 0) + v
accumulate(o, k, v) ==
    IF hasKey(o, k)
    THEN [i \in DOMAIN o |->
            IF o[i].key = k THEN [key |-> k, value |-> o[i].value + v] ELSE o[i]]
    ELSE Append(o, [key |-> k, value |-> v])

\* the accumulators before the fold
NoTotals ==
    [threw |-> FALSE, totalTime |-> 0, totalMoney |-> 0,
     taskSummary |-> <<>>, expenseSummary |-> <<>>]

\* reading the undeclared taskSummary throws a ReferenceError
Thrown == [NoTotals EXCEPT !.threw = TRUE]

RECURSIVE forEachTime(_, _, _, _)
\* dayData.time.forEach(t => ...)
forEachTime(view, list, i, acc) ==
    IF i > Len(list) \/ acc.threw THEN acc
    ELSE IF view = "part_000" THEN Thrown
    ELSE forEachTime(view, list, i + 1,
            [acc EXCEPT !.totalTime = @ + list[i].duration,
                        !.taskSummary = accumulate(@, list[i].task, list[i].duration)])

RECURSIVE forEachExpense(_, _, _, _)
\* dayData.expense.forEach(e => ...); the view inside App.jsx keeps no
\* expense summary
forEachExpense(view, list, i, acc) ==
    IF i > Len(list) \/ acc.threw THEN acc
    ELSE forEachExpense(view, list, i + 1,
            [acc EXCEPT !.totalMoney = @ + list[i].amount,
                        !.expenseSummary =
                            IF view = "inline" THEN @
                            ELSE accumulate(@, list[i].description, list[i].amount)])

\* the days of a list that have a bucket (if (dayData)), in their order; the
\* body of days.forEach does nothing for the other days
daysWithData(m, days) == SelectSeq(days, LAMBDA day : formatted[day] \in DOMAIN m)

\* the body of days.forEach for a day with a bucket
foldDay(view, m, dStr, acc) ==
    forEachExpense(view, m[dStr].expense, 1,
                   forEachTime(view, m[dStr].time, 1, acc))

RECURSIVE forEachDay(_, _, _, _, _)
forEachDay(view, m, days, i, acc) ==
    IF i > Len(days) \/ acc.threw THEN acc
    ELSE forEachDay(view, m, days, i + 1,
                    foldDay(view, m, formatted[days[i]], acc))

RECURSIVE numberOfKey(_)
\* the number a text of digits writes
numberOfKey(k) ==
    IF Len(k) = 0 THEN 0
    ELSE 10 * numberOfKey(SubSeq(k, 1, Len(k) - 1))
         + DigitVal(SubSeq(k, Len(k), Len(k)))

\* a property key that is an array index: digits with no leading zero
isIndexKey(k) ==
    /\ Len(k) > 0
    /\ \A i \in 1 .. Len(k) : IsDigit(SubSeq(k, i, i))
    /\ Len(k) > 1 => SubSeq(k, 1, 1) # "0"

RECURSIVE ascendingKeys(_)
\* index keys in ascending numeric order
ascendingKeys(o) ==
    IF o = <<>> THEN <<>>
    ELSE SelectSeq(ascendingKeys(Tail(o)),
                   LAMBDA p : numberOfKey(p.key) < numberOfKey(Head(o).key))
         \o <<Head(o)>>
         \o SelectSeq(ascendingKeys(Tail(o)),
                      LAMBDA p : numberOfKey(p.key) > numberOfKey(Head(o).key))

\* Object.entries(o): the index keys first, in ascending order, then the
\* other keys in the order of their creation
Object_entries(o) ==
    ascendingKeys(SelectSeq(o, LAMBDA p : isIndexKey(p.key)))
        \o SelectSeq(o, LAMBDA p : ~isIndexKey(p.key))

RECURSIVE sortByValue(_)
\* .sort(([, a], [, b]) => b - a), a stable sort: greater values first,
\* equal values in the order they had
sortByValue(list) ==
    IF list = <<>> THEN <<>>
    ELSE SelectSeq(sortByValue(Tail(list)), LAMBDA p : p.value > Head(list).value)
         \o <<Head(list)>>
         \o SelectSeq(sortByValue(Tail(list)), LAMBDA p : p.value <= Head(list).value)

\* what a render leaves on the page; a render that threw leaves nothing
rendered(view, start, end, acc) ==
    IF acc.threw \/ view = "part_000"
    THEN [threw |-> TRUE, start |-> start, end |-> end,
          totalTime |-> 0, totalMoney |-> 0,
          taskSummary |-> <<>>, expenseSummary |-> <<>>,
          taskRanking |-> <<>>, expenseRanking |-> <<>>]
    ELSE [threw |-> FALSE, start |-> start, end |-> end,
          totalTime |-> acc.totalTime, totalMoney |-> acc.totalMoney,
          taskSummary |-> acc.taskSummary, expenseSummary |-> acc.expenseSummary,
          taskRanking |-> sortByValue(Object_entries(acc.taskSummary)),
          expenseRanking |-> sortByValue(Object_entries(acc.expenseSummary))]

summaryOver(view, m, release, start, end) ==
    rendered(view, start, end,
             forEachDay(view, m,
                        daysWithData(m, eachDayOfInterval(release, start, end).days),
                        1, NoTotals))

\* SummaryView({ type, entries, date }) rendered at local day now
SummaryView(view, type, m, date, now, release) ==
    summaryOver(view, m, release,
                rangeStart(view, type, currentOf(view, date, now)),
                rangeEnd(view, type, currentOf(view, date, now)))

----------------------------------------------------------------------------
(* ExportDialog: the range of the chosen mode and the rows of the CSV *)

ExportModes == {"month", "year", "custom"}

\* text.replace(/"/g, '""') with no doubling at all
replaceQuotes_none(text) == text

RECURSIVE replaceQuotes(_)
\* text.replace(/"/g, '""')
replaceQuotes(text) ==
    IF Len(text) = 0 THEN ""
    ELSE (IF SubSeq(text, 1, 1) = "\"" THEN "\"\"" ELSE SubSeq(text, 1, 1))
         \o replaceQuotes(SubSeq(text, 2, Len(text)))

\* `"${text.replace(/"/g, '""')}"`
quotedField(text) == "\"" \o replaceQuotes(text) \o "\""

\* the Date that start is set to; custom takes the text of the date input
exportStart(mode, selectedMonth, selectedYear, customStart, zone) ==
    IF mode = "month" THEN startOfMonth(newDateOfText(zone, selectedMonth))
    ELSE IF mode = "year" THEN startOfYear(dayOf(selectedYear, 1, 1))
    ELSE newDateOfText(zone, customStart)

exportEnd(mode, selectedMonth, selectedYear, customEnd, zone) ==
    IF mode = "month" THEN endOfMonth(newDateOfText(zone, selectedMonth))
    ELSE IF mode = "year" THEN endOfYear(dayOf(selectedYear, 1, 1))
    ELSE newDateOfText(zone, customEnd)

timeRow(dStr, t) ==
    [date |-> dStr, type |-> "Time", text |-> quotedField(t.task),
     value |-> t.duration, startTime |-> t.startTime, endTime |-> t.endTime]

expenseRow(dStr, e) ==
    [date |-> dStr, type |-> "Expense", text |-> quotedField(e.description),
     value |-> e.amount, startTime |-> <<>>, endTime |-> <<>>]

\* the rows of a day without those of its expenses
rowsOfDay_timeOnly(m, dStr) ==
    [i \in DOMAIN m[dStr].time |-> timeRow(dStr, m[dStr].time[i])]

\* the rows pushed for a day with a bucket: its time entries, then its
\* expenses
rowsOfDay(m, dStr) ==
    [i \in DOMAIN m[dStr].time |-> timeRow(dStr, m[dStr].time[i])]
        \o [i \in DOMAIN m[dStr].expense |-> expenseRow(dStr, m[dStr].expense[i])]

RECURSIVE pushRows(_, _, _, _)
\* days.forEach(day => ...), the rows after the header row
pushRows(m, days, i, pushed) ==
    IF i > Len(days) THEN pushed
    ELSE pushRows(m, days, i + 1, pushed \o rowsOfDay(m, formatted[days[i]]))

\* a return before any range is worked out
NoExport(alert) ==
    [alert |-> alert, threw |-> FALSE, start |-> NoDate, end |-> NoDate,
     rows |-> <<>>, downloaded |-> FALSE]

\* the end of generateCSV once the rows are collected
exported(start, end, each, pushed) ==
    IF each.threw
    THEN [alert |-> "none", threw |-> TRUE, start |-> start, end |-> end,
          rows |-> <<>>, downloaded |-> FALSE]
    ELSE IF pushed = <<>>
    THEN [alert |-> "No data found for this period.", threw |-> FALSE,
          start |-> start, end |-> end, rows |-> <<>>, downloaded |-> FALSE]
    ELSE [alert |-> "none", threw |-> FALSE, start |-> start, end |-> end,
          rows |-> pushed, downloaded |-> TRUE]

exportOver(m, release, start, end) ==
    exported(start, end, eachDayOfInterval(release, start, end),
             pushRows(m, daysWithData(m, eachDayOfInterval(release, start, end).days),
                      1, <<>>))

generateCSV(mode, selectedMonth, selectedYear, customStart, customEnd, m, zone, release) ==
    IF mode = "custom" /\ (customStart = "" \/ customEnd = "")
    THEN NoExport("Please select start and end dates")
    ELSE exportOver(m, release,
            exportStart(mode, selectedMonth, selectedYear, customStart, zone),
            exportEnd(mode, selectedMonth, selectedYear, customEnd, zone))

----------------------------------------------------------------------------
(* The menu, the calendar and signing out (current App) *)

\* the views renderView shows as a DayDetailView, at one place of the tree
DayViews == {"today", "day_detail"}

\* the header with the menu is rendered once the session is there, around
\* whatever renderView returns
MenuShown ==
    /\ variant = "current"
    /\ ~crashed
    /\ session /\ ~loadingSession

\* the form state of DayDetailView after a change of view: the component
\* takes no key, so it stays mounted with its state from one day view to the
\* other, and is unmounted by any other view
formAfterView(view) ==
    IF ViewsShown /\ currentView \in DayViews /\ view \in DayViews
    THEN form ELSE BlankForm

\* the TODAY item of the menu (new Date() is a moment of the day todayStr)
menuToday ==
    /\ MenuShown
    /\ selectedDate' = todayStr
    /\ currentView' = "today"
    /\ form' = formAfterView("today")
    /\ alertMsg' = "none"
    /\ UNCHANGED <<variant, session, loadingSession, entries, savedOptions,
                   loadingData, error, crashed,
                   rows, optionRows, nextId, nextTemp, net>>
    /\ UNCHANGED pureVars

\* the CALENDAR, WEEKLY VIEW and MONTHLY VIEW items of the menu
menuView(view) ==
    /\ MenuShown
    /\ currentView' = view
    /\ form' = formAfterView(view)
    /\ alertMsg' = "none"
    /\ UNCHANGED <<variant, selectedDate,
                   session, loadingSession, entries, savedOptions,
                   loadingData, error, crashed,
                   rows, optionRows, nextId, nextTemp, net>>
    /\ UNCHANGED pureVars

\* onSelectDate of the CalendarView renderView returns: a day of the
\* calendar is pressed
CalendarView_onSelectDate(date) ==
    /\ variant = "current"
    /\ ViewsShown
    /\ currentView = "calendar"
    /\ selectedDate' = date
    /\ currentView' = "day_detail"
    /\ form' = BlankForm
    /\ alertMsg' = "none"
    /\ UNCHANGED <<variant, session, loadingSession, entries, savedOptions,
                   loadingData, error, crashed,
                   rows, optionRows, nextId, nextTemp, net>>
    /\ UNCHANGED pureVars

\* the LOGOUT item: signOut() is awaited, and when it succeeds the
\* onAuthStateChange callback has run with no session (the entries and the
\* saved options are emptied, the Auth screen replaces the tree); signOut
\* resolves with an error object, without throwing, when it fails; either
\* way setCurrentView('today') follows, and selectedDate is not set
handleSignOut(signedOut) ==
    /\ MenuShown
    /\ IF signedOut
       THEN /\ session' = FALSE
            /\ entries' = <<>>
            /\ savedOptions' = EmptyBucket
            /\ form' = BlankForm
       ELSE /\ UNCHANGED <<session, entries, savedOptions>>
            /\ form' = formAfterView("today")
    /\ currentView' = "today"
    /\ alertMsg' = "none"
    /\ UNCHANGED <<variant, selectedDate, loadingSession,
                   loadingData, error, crashed,
                   rows, optionRows, nextId, nextTemp, net>>
    /\ UNCHANGED pureVars

----------------------------------------------------------------------------
(* The specifications *)

\* the backend's answers to the fetches, and the fetches after their awaits
FetchCompletions ==
    \/ BackendError
    \/ BackendSelect
    \/ FetchEntriesSettle

OptionsFetchCompletions ==
    \/ BackendSelectOptions
    \/ FetchOptionsSettle

\* the backend's answers to the saves, and the saves after their awaits
SaveCompletions ==
    \/ BackendInsert
    \/ BackendUpdate
    \/ SaveEntrySettle
    \/ BackendInsertSelect
    \/ AddEntrySettle

SignIn ==
    \/ \E s \in BOOLEAN : GetSessionResolved(s)
    \/ \E s \in BOOLEAN : AuthStateChange(s)

\* a form of the day view filled in and submitted
SubmitSave ==
    \E date \in ShownDates, type \in Types :
        \E data \in FormInputs(type), editingId \in {0} \cup ListedIds(date, type) :
            /\ CanSend(1)
            /\ saveEntry(date, type, data, editingId)
            /\ form' = BlankForm

\* a form of TodayView filled in and submitted
SubmitAdd ==
    \E type \in Types : \E data \in FormInputs(type) :
        /\ CanSend(1)
        /\ addEntry(todayStr, type, data)
        /\ form' = BlankForm

ClickDelete ==
    \E date \in ShownDates, type \in Types :
        \E id \in ListedIds(date, type) : deleteEntry(date, type, id)

ClickSaveOption ==
    \E type \in Types, content \in {"", "Write"} : saveNewOption(type, content)

\* the entries and the backend table
Next ==
    \/ SignIn
    \/ FetchCompletions
    \/ OptionsFetchCompletions
    \/ SaveCompletions
    \/ SubmitSave
    \/ SubmitAdd
    \/ ClickDelete
    \/ BackendDelete
    \/ DeleteEntrySettle

Spec == Init /\ [][Next]_vars

\* the saved options and their backend table
NextOptions ==
    \/ SignIn
    \/ FetchCompletions
    \/ OptionsFetchCompletions
    \/ ClickSaveOption
    \/ BackendInsertOption
    \/ SaveNewOptionSettle

SpecOptions == Init /\ [][NextOptions]_vars

\* the time form of the day view of today (selectedDate as the App starts),
\* typed into and submitted
TimeForm ==
    \/ \E t \in TaskTexts : setTimeTask(t)
    \/ \E text \in SmartTexts : setSmartTimeInput(text)
    \/ handleSmartInputBlur
    \/ toggleShowPickers
    \/ \E t \in PickerTimes : setStartTime(t)
    \/ \E t \in PickerTimes : setEndTime(t)
    \/ DayDetailView_handleTimeSubmit(todayStr)
    \/ \E i \in DOMAIN bucketOf(entries, todayStr).time :
         startEditTime(bucketOf(entries, todayStr).time[i])
    \/ cancelEditTime
    \/ \E text \in DurationTexts : setTimeDuration(text)
    \/ TodayView_handleTimeSubmit

\* the day view once the user is signed in and both fetches have settled
InitLoaded(v, table) ==
    /\ variant = v
    /\ currentView = "today"
    /\ selectedDate = todayStr
    /\ session = TRUE
    /\ loadingSession = FALSE
    /\ entries = nestRows(v, table)
    /\ savedOptions = EmptyBucket
    /\ loadingData = FALSE
    /\ error = "null"
    /\ crashed = FALSE
    /\ alertMsg = "none"
    /\ form = BlankForm
    /\ rows = table
    /\ optionRows = <<>>
    /\ nextId = Len(table) + 1
    /\ nextTemp = 1
    /\ net = EmptyBag

InitForm ==
    /\ \E v \in {"current", "earlier"} :
         \E table \in { t \in InitialTables : Len(t) <= 1 } : InitLoaded(v, table)
    /\ PureIdle

NextForm ==
    \/ FetchCompletions
    \/ SaveCompletions
    \/ TimeForm

SpecForm == InitForm /\ [][NextForm]_vars

\* the expense form of the day view of today, typed into and submitted
ExpenseForm ==
    \/ \E t \in DescTexts : setExpDesc(t)
    \/ \E text \in AmountTexts : setExpAmount(text)
    \/ DayDetailView_handleExpSubmit(todayStr)
    \/ \E i \in DOMAIN bucketOf(entries, todayStr).expense :
         startEditExp(bucketOf(entries, todayStr).expense[i])
    \/ cancelEditExp
    \/ TodayView_handleExpSubmit

NextExpense ==
    \/ FetchCompletions
    \/ SaveCompletions
    \/ ExpenseForm

SpecExpense == InitForm /\ [][NextExpense]_vars

\* the tables the backend may hold when the user starts to move between the
\* views: a time entry on another day than today, and one on today
NavTables ==
    { << Row(1, "2024-03-01", "time", "Write", 850, TimeText(9, 0), TimeText(17, 30)) >>,
      << Row(1, "2024-03-01", "time", "Write", 850, TimeText(9, 0), TimeText(17, 30)),
         Row(2, todayStr, "time", "Read", 100, TimeText(9, 0), TimeText(10, 0)) >> }

InitNav ==
    /\ \E table \in NavTables : InitLoaded("current", table)
    /\ PureIdle

Menu ==
    \/ menuToday
    \/ menuView("calendar")
    \/ menuView("weekly")
    \/ menuView("monthly")
    \/ \E signedOut \in BOOLEAN : handleSignOut(signedOut)

\* the time entries of the day view shown, edited and submitted
EditTime ==
    /\ currentView \in DayViews
    /\ \/ \E i \in DOMAIN bucketOf(entries, selectedDate).time :
             startEditTime(bucketOf(entries, selectedDate).time[i])
       \/ cancelEditTime
       \/ DayDetailView_handleTimeSubmit(selectedDate)

\* the views, the selected day and the entry edited, with signing out and in
NextNav ==
    \/ Menu
    \/ \E date \in Dates : CalendarView_onSelectDate(date)
    \/ \E s \in BOOLEAN : AuthStateChange(s)
    \/ FetchCompletions
    \/ OptionsFetchCompletions
    \/ EditTime
    \/ BackendUpdate
    \/ SaveEntrySettle

SpecNav == InitNav /\ [][NextNav]_vars

----------------------------------------------------------------------------
(* Calling the pure functions: the inputs they are called with *)

\* the most whitespace put around a separator word or around the whole text
MaxPad == 2

\* whitespace of n characters; a tab stands in the middle of the longer runs
Pad(n) == [i \in 1..n |-> IF i = 2 THEN "\t" ELSE " "]

\* texts of one endpoint, as a user types them ("" is a missing side)
Segments == {
    <<"9","a","m">>,
    <<"5","p","m">>,
    <<"9","A","M">>,
    <<"5"," ","P","M">>,
    <<"9",":","0","0">>,
    <<"1","7",":","0","0">>,
    <<"9",":","0","0","a","m">>,
    <<"5",":","0","0","p","m">>,
    <<"9",":","3","0">>,
    <<"1","7",":","4","5">>,
    <<"n","o","o","n">>,
    <<"m","i","d","n","i","g","h","t">>,
    <<"1","2","a","m">>,
    <<"1","2"," ","P","M">>,
    <<"2","4",":","0","0">>,
    <<>> }

\* the words put between two endpoints ("" is no connecting word)
Connectors == {
    <<"t","o">>, <<"-">>, <<"u","n","t","i","l">>, <<"T","O">>, <<>> }

\* <start> <connector> <end>, with 0..MaxPad whitespace on each side of the
\* connector, and none or MaxPad around the whole text
TwoSegmentTexts ==
    { Pad(o) \o s1 \o Pad(l) \o w \o Pad(r) \o s2 \o Pad(o) :
        o \in {0, MaxPad}, l \in 0..MaxPad, r \in 0..MaxPad,
        s1 \in Segments, s2 \in Segments, w \in Connectors }

\* texts with two separators
ThreeSegmentTexts ==
    { s1 \o <<" ">> \o w1 \o <<" ">> \o s2 \o <<" ">> \o w2 \o <<" ">> \o s3 :
        s1 \in {<<"9","a","m">>, <<"5","p","m">>}, s2 \in {<<"5","p","m">>, <<>>}, s3 \in {<<"9","a","m">>, <<"5","p","m">>},
        w1 \in Connectors \ {<<>>}, w2 \in Connectors \ {<<>>} }

AllTimes == { TimeText(h, m) : h \in 0..23, m \in 0..59 }

SomeTimes == { TimeText(0, 0), TimeText(9, 0), TimeText(12, 59), TimeText(23, 59) }

\* "{start} to {end}" for canonical times: every time on one side at least
RoundTripTexts ==
    { s \o <<" ", "t", "o", " ">> \o e : s \in AllTimes, e \in SomeTimes }
    \cup { s \o <<" ", "t", "o", " ">> \o e : s \in SomeTimes, e \in AllTimes }

ParseCalls ==
    { [fn |-> "parseSmartTime", a |-> t, b |-> <<>>] :
        t \in TwoSegmentTexts \cup ThreeSegmentTexts \cup RoundTripTexts }

DurationCalls ==
    { [fn |-> "calculateDuration", a |-> s, b |-> e] :
        s \in SomeTimes \cup {<<>>}, e \in AllTimes \cup {<<>>} }
    \cup { [fn |-> "calculateDuration", a |-> s, b |-> e] :
        s \in AllTimes, e \in SomeTimes }

InitPure ==
    /\ InitApp("current", <<>>)
    /\ call \in ParseCalls \cup DurationCalls
    /\ ret = NoMatch
    /\ pc = "call"

CallParseSmartTime ==
    /\ pc = "call"
    /\ call.fn = "parseSmartTime"
    /\ ret' = parseSmartTime(call.a)
    /\ pc' = "done"
    /\ UNCHANGED call
    /\ UNCHANGED appVars

CallCalculateDuration ==
    /\ pc = "call"
    /\ call.fn = "calculateDuration"
    /\ ret' = calculateDuration(call.a, call.b)
    /\ pc' = "done"
    /\ UNCHANGED call
    /\ UNCHANGED appVars

NextPure ==
    \/ CallParseSmartTime
    \/ CallCalculateDuration

SpecPure == InitPure /\ [][NextPure]_vars

----------------------------------------------------------------------------
(* Rendering the summaries and exporting, over loaded entries *)

\* the most rows the backend table holds when a summary is rendered
MaxSummaryRows == 3

SummaryDates == {"2024-03-01", "2024-03-04"}

\* task labels: two that differ in case only, and one that is an array index
SummaryLabels == {"Write", "write", "7"}

\* expense descriptions, one of them with double quotes inside
SummaryDescriptions == {"Coffee", "Say \"hi\""}

\* what a row of the table may hold, its id left open
SummaryRows ==
    { Row(0, d, "time", l, 100, TimeText(9, 0), TimeText(10, 0)) :
        d \in SummaryDates, l \in SummaryLabels }
    \cup { Row(0, d, "expense", x, 450, <<>>, <<>>) :
        d \in SummaryDates, x \in SummaryDescriptions }

\* the tables of at most MaxSummaryRows rows, ids in the order of creation
SummaryTables ==
    { [i \in DOMAIN f |-> [f[i] EXCEPT !.id = i]] :
        f \in UNION { [1 .. n -> SummaryRows] : n \in 0 .. MaxSummaryRows } }

\* the local day of new Date() (todayStr)
nowDay == dayOf(2024, 3, 2)

\* the date prop handed to the component: left out, the leap day, a Sunday,
\* a Monday, the last day of a year and a day of a year with no entries
AnchorDays ==
    { NoDate, dayOf(2024, 2, 29), dayOf(2024, 3, 3), dayOf(2024, 3, 4),
      dayOf(2024, 12, 31), dayOf(2025, 6, 15) }

\* what the month, year and date inputs of the export dialog are set to
ExportMonths == {"2024-02", "2024-03"}
ExportYears == {2024, 2025}
CustomDates == {"", "2024-03-01", "2024-03-04"}

InitSummary ==
    /\ \E table \in SummaryTables : InitLoaded("current", table)
    /\ PureIdle

\* a SummaryView rendered with the entries of the App
RenderSummary(view, type, date, release) ==
    /\ pc = "idle"
    /\ ViewsShown
    /\ call' = [fn |-> "SummaryView", a |-> <<view, type, date>>, b |-> <<release>>]
    /\ ret' = SummaryView(view, type, entries, date, nowDay, release)
    /\ pc' = "done"
    /\ UNCHANGED appVars

\* the Export button of the dialog, pressed with the inputs as they are set
ExportDialog_generateCSV(mode, selectedMonth, selectedYear, customStart, customEnd, zone, release) ==
    /\ pc = "idle"
    /\ ViewsShown
    /\ call' = [fn |-> "generateCSV",
                a |-> <<mode, selectedMonth, selectedYear, customStart, customEnd>>,
                b |-> <<zone, release>>]
    /\ ret' = generateCSV(mode, selectedMonth, selectedYear, customStart, customEnd,
                          entries, zone, release)
    /\ pc' = "done"
    /\ alertMsg' = ret'.alert
    /\ UNCHANGED allButAlert

\* the component takes any type and a date; the two other views are only
\* rendered for the week and for the month, with no date
RenderSummaries ==
    \/ \E type \in SummaryTypes, date \in AnchorDays, release \in DateFnsReleases :
         RenderSummary("component", type, date, release)
    \/ \E view \in {"inline", "part_000"}, type \in {"week", "month"},
          release \in DateFnsReleases :
         RenderSummary(view, type, NoDate, release)

\* the dialog opens on the month of today and the year of today, with the two
\* custom dates empty
Exports ==
    \E zone \in TimeZones, release \in DateFnsReleases :
        \/ \E selectedMonth \in ExportMonths :
             ExportDialog_generateCSV("month", selectedMonth, 2024, "", "",
                                      zone, release)
        \/ \E selectedYear \in ExportYears :
             ExportDialog_generateCSV("year", "2024-03", selectedYear, "", "",
                                      zone, release)
        \/ \E customStart \in CustomDates, customEnd \in CustomDates :
             ExportDialog_generateCSV("custom", "2024-03", 2024,
                                      customStart, customEnd, zone, release)

NextSummary ==
    \/ RenderSummaries
    \/ Exports

SpecSummary == InitSummary /\ [][NextSummary]_vars

----------------------------------------------------------------------------
(* Properties of the smart time parser and the duration calculator *)

ParseDone == pc = "done" /\ call.fn = "parseSmartTime"

DurationDone == pc = "done" /\ call.fn = "calculateDuration"

\* a zero-padded 24-hour HH:MM text
IsTimeText(s) ==
    /\ Len(s) = 5
    /\ IsDigit(s[1]) /\ IsDigit(s[2]) /\ s[3] = ":" /\ IsDigit(s[4]) /\ IsDigit(s[5])
    /\ 10 * DigitVal(s[1]) + DigitVal(s[2]) <= 23
    /\ 10 * DigitVal(s[4]) + DigitVal(s[5]) <= 59

MinuteOfDay(s) ==
    (10 * DigitVal(s[1]) + DigitVal(s[2])) * 60 + 10 * DigitVal(s[4]) + DigitVal(s[5])

\* a segment that one of the accepted formats parses
AcceptedSegment(seg) == \E i \in 1..Len(formats) : isValid(parse(seg, formats[i]))

\* C5: parseSmartTime returns both endpoints or no match; when a segment of the
\* text matches none of the accepted formats ("noon", "midnight") the parse
\* fails as a whole
Thm_C5 ==
    ParseDone =>
        /\ \/ ret.match /\ ret.start # <<>> /\ ret.end # <<>>
           \/ ret = NoMatch
        /\ (\E k \in 1..Len(splitParts(cleanInput(call.a))) :
                ~AcceptedSegment(splitParts(cleanInput(call.a))[k]))
           => ret = NoMatch

Witness_C5 ==
    /\ ParseDone
    /\ call.a = <<"n","o","o","n"," ","t","o"," ","5","p","m">>
    /\ ret = NoMatch

\* C6 (as claimed): a hyphen without surrounding spaces separates the endpoints
Cex_C6 ==
    ParseDone =>
        /\ call.a = <<"9",":","0","0","-","1","7",":","0","0">>
           => ret = [match |-> TRUE, start |-> TimeText(9, 0), end |-> TimeText(17, 0)]
        /\ call.a = <<"9",":","0","0","a","m","-","5",":","0","0","p","m">>
           => ret = [match |-> TRUE, start |-> TimeText(9, 0), end |-> TimeText(17, 0)]
        /\ call.a = <<"9",":","3","0","-","1","7",":","4","5">>
           => ret = [match |-> TRUE, start |-> TimeText(9, 30), end |-> TimeText(17, 45)]

\* a separator in a cleaned text: a connecting word with a space on each side
SeparatorAt(c, i) ==
    /\ c[i] = " "
    /\ \E w \in 1..Len(SeparatorWords) :
          /\ i + Len(SeparatorWords[w]) + 1 <= Len(c)
          /\ SubSeq(c, i + 1, i + Len(SeparatorWords[w])) = SeparatorWords[w]
          /\ c[i + Len(SeparatorWords[w]) + 1] = " "

SeparatorCount(c) == Cardinality({i \in 1..Len(c) : SeparatorAt(c, i)})

\* C7: a text that does not hold exactly one separator between two non-empty
\* segments (no connecting word, a missing side, two or more separators) yields
\* no match
Thm_C7 ==
    ParseDone =>
        /\ SeparatorCount(cleanInput(call.a)) # 1 => ret = NoMatch
        /\ call.a = <<"9","a","m"," ","5","p","m">> => ret = NoMatch

Witness_C7 ==
    /\ ParseDone
    /\ call.a = <<"9","a","m"," ","t","o"," ","5","p","m"," ","t","o"," ","9","a","m">>
    /\ SeparatorCount(cleanInput(call.a)) = 2
    /\ ret = NoMatch

\* "{start} to {end}" of two canonical times
IsRoundTripText(a) ==
    /\ Len(a) = 14
    /\ SubSeq(a, 6, 9) = <<" ", "t", "o", " ">>
    /\ IsTimeText(SubSeq(a, 1, 5))
    /\ IsTimeText(SubSeq(a, 10, 14))

\* C8: parsing "{start} to {end}" of two valid HH:MM texts returns that pair
Thm_C8 ==
    (ParseDone /\ IsRoundTripText(call.a)) =>
        ret = [match |-> TRUE, start |-> SubSeq(call.a, 1, 5), end |-> SubSeq(call.a, 10, 14)]

Witness_C8 ==
    /\ ParseDone
    /\ call.a = TimeText(23, 59) \o <<" ", "t", "o", " ">> \o TimeText(0, 0)
    /\ ret.match

\* the text without its whitespace
RECURSIVE Squeeze(_)
Squeeze(s) ==
    IF s = <<>> THEN <<>>
    ELSE IF IsSpace(Head(s)) THEN Squeeze(Tail(s))
    ELSE <<Head(s)>> \o Squeeze(Tail(s))

\* 12-hour segments and the 24-hour texts they stand for
TwelveHourExamples == <<
    [text |-> <<"1","2","a","m">>, time |-> TimeText(0, 0)],
    [text |-> <<"1","2"," ","p","m">>, time |-> TimeText(12, 0)],
    [text |-> <<"5","p","m">>, time |-> TimeText(17, 0)],
    [text |-> <<"5",":","0","0","p","m">>, time |-> TimeText(17, 0)],
    [text |-> <<"9","a","m">>, time |-> TimeText(9, 0)],
    [text |-> <<"9",":","0","0","a","m">>, time |-> TimeText(9, 0)] >>

\* the segment, when it is one of the examples, gives the example's time
ConvertedAsExample(segment, endpoint) ==
    \A x \in 1..Len(TwelveHourExamples) :
        segment = TwelveHourExamples[x].text => endpoint = TwelveHourExamples[x].time

\* both segments of a text of two parts
BothConverted(parts, start, end) ==
    /\ ConvertedAsExample(parts[1], start)
    /\ ConvertedAsExample(parts[2], end)

\* C9: every endpoint returned is a zero-padded 24-hour HH:MM text; 12-hour
\* segments are converted, "9am to 5pm" to ("09:00", "17:00") in any case and
\* spacing
Thm_C9 ==
    (ParseDone /\ ret.match) =>
        /\ IsTimeText(ret.start) /\ IsTimeText(ret.end)
        /\ Squeeze(toLowerCase(call.a)) = <<"9","a","m","t","o","5","p","m">>
           => ret.start = TimeText(9, 0) /\ ret.end = TimeText(17, 0)
        /\ BothConverted(splitParts(cleanInput(call.a)), ret.start, ret.end)

Witness_C9 ==
    /\ ParseDone
    /\ call.a = Pad(MaxPad) \o <<"9","A","M">> \o Pad(MaxPad) \o <<"T", "O">> \o Pad(1) \o <<"5"," ","P","M">> \o Pad(MaxPad)
    /\ ret = [match |-> TRUE, start |-> TimeText(9, 0), end |-> TimeText(17, 0)]

\* d hundredths of an hour is the hundredth nearest to mins minutes
NearestHundredth(d, mins) ==
    /\ 60 * d - 100 * mins <= 30
    /\ 100 * mins - 60 * d <= 30

\* C10: for an end after the start, calculateDuration is (end - start) in
\* minutes over 60, rounded to the nearest hundredth; 09:00 to 17:30 is 8.5
Thm_C10 ==
    (DurationDone /\ IsTimeText(call.a) /\ IsTimeText(call.b)
        /\ MinuteOfDay(call.b) > MinuteOfDay(call.a)) =>
        /\ NearestHundredth(ret, MinuteOfDay(call.b) - MinuteOfDay(call.a))
        /\ (call.a = TimeText(9, 0) /\ call.b = TimeText(17, 30)) => ret = 850

Witness_C10 ==
    /\ DurationDone
    /\ call.a = TimeText(9, 0)
    /\ call.b = TimeText(17, 30)
    /\ ret = 850

----------------------------------------------------------------------------
(* Properties of the time form, the deletion and the saved options *)

\* the requests that hand a row to the backend to be stored
SaveRequests ==
    { r \in BagToSet(net) : r.op \in {"insert", "update", "insertSelect"} }

\* a time row with both times, the end after the start, and the duration that
\* follows from them
DerivedTimeRow(row) ==
    /\ IsTimeText(row.start_time)
    /\ IsTimeText(row.end_time)
    /\ MinuteOfDay(row.end_time) > MinuteOfDay(row.start_time)
    /\ NearestHundredth(row.value,
                        MinuteOfDay(row.end_time) - MinuteOfDay(row.start_time))

\* C1 (as claimed): every time entry a day form hands to the save operation
\* has a start and an end, the end after the start, and the duration
\* recomputed from them
Cex_C1 ==
    \A r \in SaveRequests : r.row.type = "time" => DerivedTimeRow(r.row)

\* the time form holds two HH:MM texts whose end is not after the start
InvalidRangeInForm ==
    /\ IsTimeText(form.startTime)
    /\ IsTimeText(form.endTime)
    /\ MinuteOfDay(form.endTime) <= MinuteOfDay(form.startTime)

RangeAlert == "End time must be after start time"

\* C2 (as claimed): with an end not after the start the duration is invalid,
\* and submitting the time form alerts, saves nothing and leaves the entries
Cex_C2 ==
    [][ (DayDetailView_handleTimeSubmit(todayStr) /\ InvalidRangeInForm) =>
            /\ calculateDuration(form.startTime, form.endTime) <= 0
            /\ alertMsg' = RangeAlert
            /\ net' = net /\ rows' = rows /\ entries' = entries ]_vars

\* C2 (amended): with an end not after the start the duration is invalid, and
\* submitting the time form saves nothing and leaves the entries; it alerts
\* when the task is filled in, and returns without an alert when it is empty
Thm_C2 ==
    [][ (DayDetailView_handleTimeSubmit(todayStr) /\ InvalidRangeInForm) =>
            /\ calculateDuration(form.startTime, form.endTime) <= 0
            /\ form.timeTask # "" => alertMsg' = RangeAlert
            /\ form.timeTask = "" => alertMsg' = "none"
            /\ net' = net /\ rows' = rows /\ entries' = entries ]_vars

Witness_C2 ==
    /\ alertMsg = RangeAlert
    /\ form.timeTask # ""
    /\ InvalidRangeInForm
    /\ MinuteOfDay(form.endTime) < MinuteOfDay(form.startTime)
    /\ net = EmptyBag

\* C3: deleteEntry takes the entry out of the entries at once, while its
\* request is still to be answered and holds the entries as they were; when the
\* request fails, the entries are set back to exactly those and an alert is
\* raised
Thm_C3 ==
    [][ /\ \A date \in Dates, type \in Types : \A id \in ListedIds(date, type) :
              deleteEntry(date, type, id) =>
                  /\ id \notin (ListedIds(date, type))'
                  /\ \E r \in BagToSet(net') :
                        /\ r.op = "delete" /\ r.state = "sent" /\ r.id = id
                        /\ r.original = entries
                        /\ r \notin BagToSet(net) \/ CopiesIn(r, net') > CopiesIn(r, net)
        /\ \A r \in Awaited("delete", "error") :
              (DeleteEntrySettle /\ net' = Drop(net, r)) =>
                  /\ entries' = r.original
                  /\ alertMsg' \in {"Failed to delete.", "Failed to delete from cloud."}
      ]_vars

Witness_C3 ==
    /\ alertMsg = DeleteFailedAlert(variant)
    /\ rows # <<>>
    /\ entries = nestRows(variant, rows)
    /\ net = EmptyBag

\* the labels of a list of saved options
Labels(list) == { list[i] : i \in DOMAIN list }

\* C4 (as claimed): saveNewOption appends the option at once, and when the
\* backend insert fails the option is taken out of the saved options again
Cex_C4 ==
    [][ /\ \A type \in Types, content \in {"Write"} :
              saveNewOption(type, content) =>
                  savedOptions'[type] = Append(savedOptions[type], content)
        /\ \A r \in Awaited("insertOption", "error") :
              (SaveNewOptionSettle /\ net' = Drop(net, r)
                  /\ r.row.content \in Labels(savedOptions[r.row.type])) =>
                  Len(savedOptions'[r.row.type]) < Len(savedOptions[r.row.type])
      ]_vars

----------------------------------------------------------------------------
(* Properties of the expense form, the blur, the summary and the export *)

\* C11 (as claimed): an expense handed to the save operation has a non-empty
\* description and an amount that is not negative
Cex_C11 ==
    \A r \in SaveRequests :
        r.row.type = "expense" => r.row.content # "" /\ r.row.value >= 0

\* the smart text of the form is not one parseSmartTime reads
SmartTextUnreadable == ~parseSmartTime(form.smartTimeInput).match

\* C12: a blur of the smart time field whose text does not parse leaves the
\* start and end times of the form as they were; nothing is put in their place
\* (stated as its contrapositive: a step that changes either time is not such
\* a blur)
Thm_C12 ==
    [][(form'.startTime # form.startTime \/ form'.endTime # form.endTime)
         => ~(handleSmartInputBlur /\ SmartTextUnreadable)]_vars

\* both times are set, a text that does not parse has been typed over them,
\* and the field can be blurred
Witness_C12 ==
    /\ variant = "current" /\ ViewsShown
    /\ form.smartTimeInput # <<>> /\ SmartTextUnreadable
    /\ form.startTime # <<>> /\ form.endTime # <<>>
    /\ ENABLED handleSmartInputBlur

\* C17 (as claimed): while there is no session the entries and the saved
\* options are empty and the data views are not shown
Cex_C17 ==
    (variant = "current" /\ ~session)
        => (entries = <<>> /\ savedOptions = EmptyBucket /\ ~ViewsShown)

SummaryDone == pc = "done" /\ call.fn = "SummaryView"

ExportDone == pc = "done" /\ call.fn = "generateCSV"

\* the view that was rendered, the type and the date it was given
RenderedView == call.a[1]
RenderedType == call.a[2]
RenderedDate == call.a[3]

\* the date keys of the entries that name a day from start to end
KeysIn(start, end) ==
    { d \in DOMAIN entries : \E n \in start .. end : formatted[n] = d }

\* the entries of one kind on the days from start to end, each named by its
\* day and its place in the day's list
EntriesIn(type, start, end) ==
    { <<d, i>> \in KeysIn(start, end) \X (1 .. MaxSummaryRows) :
        i \in DOMAIN entries[d][type] }

\* the hours or the money of an entry named that way
AmountOf(type, e) ==
    IF type = "time" THEN entries[e[1]].time[e[2]].duration
    ELSE entries[e[1]].expense[e[2]].amount

\* the label of an entry named that way
LabelOf(type, e) ==
    IF type = "time" THEN entries[e[1]].time[e[2]].task
    ELSE entries[e[1]].expense[e[2]].description

RECURSIVE SumOf(_, _)
\* the sum of the amounts of a set of entries
SumOf(type, set) ==
    IF set = {} THEN 0
    ELSE AmountOf(type, CHOOSE e \in set : TRUE)
         + SumOf(type, set \ {CHOOSE e \in set : TRUE})

\* C13: a rendered summary did not fail, its total time is the sum of the
\* durations of the time entries on the days of its range and its total money
\* the sum of the amounts of the expenses on those days; with no bucket in the
\* range the totals are zero and the breakdowns empty
Thm_C13 ==
    (SummaryDone /\ RenderedView \in {"component", "inline"})
        => /\ ~ret.threw
           /\ ret.totalTime = SumOf("time", EntriesIn("time", ret.start, ret.end))
           /\ ret.totalMoney = SumOf("expense", EntriesIn("expense", ret.start, ret.end))
           /\ KeysIn(ret.start, ret.end) = {}
                => /\ ret.totalTime = 0 /\ ret.totalMoney = 0
                   /\ ret.taskSummary = <<>> /\ ret.expenseSummary = <<>>

\* a summary over a range that holds a time entry and an expense and leaves
\* out a day that has a bucket
Witness_C13 ==
    /\ SummaryDone /\ RenderedView = "component"
    /\ ret.totalTime = 100 /\ ret.totalMoney = 450
    /\ DOMAIN entries # KeysIn(ret.start, ret.end)

\* no day of the range has a bucket, while the entries are not empty
Witness_C13_NoBucket ==
    /\ SummaryDone /\ RenderedView \in {"component", "inline"}
    /\ entries # <<>> /\ KeysIn(ret.start, ret.end) = {}
    /\ ~ret.threw /\ ret.totalTime = 0

\* the place a key has in a summary object, 0 when it is not a key of it
PlaceOf(o, k) == IF hasKey(o, k) THEN CHOOSE i \in DOMAIN o : o[i].key = k ELSE 0

\* the breakdown of one kind is right: its keys are the labels of the entries
\* of the range and each value is the sum over the entries with that very label
BreakdownRight(type, o, start, end) ==
    /\ { o[i].key : i \in DOMAIN o }
         = { LabelOf(type, e) : e \in EntriesIn(type, start, end) }
    /\ \A i \in DOMAIN o :
         /\ PlaceOf(o, o[i].key) = i
         /\ o[i].value =
              SumOf(type, { e \in EntriesIn(type, start, end) :
                              LabelOf(type, e) = o[i].key })

\* C14 (as claimed): the summary has a task breakdown and an expense
\* breakdown, each mapping a label to the sum over the entries of the range
\* that carry exactly that label
Cex_C14 ==
    (SummaryDone /\ RenderedView \in {"component", "part_000"})
        => /\ ~ret.threw
           /\ BreakdownRight("time", ret.taskSummary, ret.start, ret.end)
           /\ BreakdownRight("expense", ret.expenseSummary, ret.start, ret.end)

\* the same for the component alone, which does keep "Write" and "write" apart
Holds_C14_component ==
    (SummaryDone /\ RenderedView = "component")
        => /\ ~ret.threw
           /\ BreakdownRight("time", ret.taskSummary, ret.start, ret.end)
           /\ BreakdownRight("expense", ret.expenseSummary, ret.start, ret.end)

\* a pair of a ranked list comes before another of the same value only if
\* its key was met first in the fold
RankedInOrder(ranking, o) ==
    \A i, j \in DOMAIN ranking :
        i < j => \/ ranking[i].value > ranking[j].value
                 \/ /\ ranking[i].value = ranking[j].value
                    /\ PlaceOf(o, ranking[i].key) < PlaceOf(o, ranking[j].key)

\* C15 (as claimed): a rendered breakdown list is in descending order of
\* value, equal values in the order their labels were first met
Cex_C15 ==
    (SummaryDone /\ ~ret.threw)
        => /\ RankedInOrder(ret.taskRanking, ret.taskSummary)
           /\ RankedInOrder(ret.expenseRanking, ret.expenseSummary)

\* the calendar day a date key names
DayOfKey(text) == CHOOSE n \in CalendarDays : formatted[n] = text

\* the inputs the export was run with
ExportMode == call.a[1]
ExportCustomStart == call.a[4]
ExportCustomEnd == call.a[5]

\* the custom mode with a start date later than the end date
CustomStartAfterEnd ==
    /\ ExportDone /\ ExportMode = "custom"
    /\ ExportCustomStart # "" /\ ExportCustomEnd # ""
    /\ DayOfKey(ExportCustomStart) > DayOfKey(ExportCustomEnd)

\* C16 (as claimed): an export whose start date is after its end date is
\* refused, by a throw or by an alert of whatever wording, and gives nothing:
\* no rows and no file
Cex_C16 ==
    CustomStartAfterEnd
        => /\ ret.threw \/ ret.alert # "none"
           /\ ret.rows = <<>> /\ ~ret.downloaded

\* a text field between its two wrapping quotes
IsWrapped(text) ==
    /\ Len(text) >= 2
    /\ SubSeq(text, 1, 1) = "\"" /\ SubSeq(text, Len(text), Len(text)) = "\""

Unwrapped(text) == SubSeq(text, 2, Len(text) - 1)

RECURSIVE QuotesPaired(_)
\* every double quote of a text stands in a pair of two
QuotesPaired(text) ==
    IF Len(text) = 0 THEN TRUE
    ELSE IF SubSeq(text, 1, 1) # "\"" THEN QuotesPaired(SubSeq(text, 2, Len(text)))
    ELSE /\ Len(text) >= 2 /\ SubSeq(text, 2, 2) = "\""
         /\ QuotesPaired(SubSeq(text, 3, Len(text)))

RECURSIVE Undoubled(_)
\* a text with each pair of double quotes made one
Undoubled(text) ==
    IF Len(text) = 0 THEN ""
    ELSE IF Len(text) >= 2 /\ SubSeq(text, 1, 2) = "\"\""
    THEN "\"" \o Undoubled(SubSeq(text, 3, Len(text)))
    ELSE SubSeq(text, 1, 1) \o Undoubled(SubSeq(text, 2, Len(text)))

\* the kind of entries a row type names
KindOfRow(type) == IF type = "Time" THEN "time" ELSE "expense"

\* what a row says: its day, its kind, its text read back and its value
RowSays(row) ==
    <<row.date, KindOfRow(row.type), Undoubled(Unwrapped(row.text)), row.value>>

\* what an entry is: its day, its kind, its label and its amount
EntryIs(type, e) == <<e[1], type, LabelOf(type, e), AmountOf(type, e)>>

\* the entries of both kinds on the days from start to end
AllEntriesIn(start, end) ==
    { <<type, e>> \in Types \X ((DOMAIN entries) \X (1 .. MaxSummaryRows)) :
        e \in EntriesIn(type, start, end) }

\* the export ran over a range that has a start not after its end
ExportedRange == ExportDone /\ ~ret.threw /\ ret.start # NoDate /\ ret.start <= ret.end

Anchor == currentOf(RenderedView, RenderedDate, nowDay)

\* C20: the range of a week summary is the Monday to the Sunday, 7 days,
\* around the anchor day; that of a month or year summary runs from the first
\* to the last day of the anchor's calendar month or year
Thm_C20 ==
    (SummaryDone /\ RenderedView \in {"component", "inline"})
        => /\ ret.start <= Anchor /\ Anchor <= ret.end
           /\ RenderedType = "week"
                => /\ getDay(ret.start) = 1 /\ getDay(ret.end) = 0
                   /\ ret.end = ret.start + 6
           /\ RenderedType = "month"
                => /\ getDate(ret.start) = 1 /\ getDate(ret.end + 1) = 1
                   /\ getMonth(ret.start) = getMonth(Anchor)
                   /\ getMonth(ret.end) = getMonth(Anchor)
                   /\ getFullYear(ret.start) = getFullYear(Anchor)
                   /\ getFullYear(ret.end) = getFullYear(Anchor)
           /\ RenderedType = "year"
                => /\ getMonth(ret.start) = 1 /\ getDate(ret.start) = 1
                   /\ getMonth(ret.end) = 12 /\ getDate(ret.end) = 31
                   /\ getFullYear(ret.start) = getFullYear(Anchor)
                   /\ getFullYear(ret.end) = getFullYear(Anchor)

\* the week of Sunday 3 March 2024, which is the week from Monday 26
\* February to that Sunday
Witness_C20 ==
    /\ SummaryDone /\ RenderedView = "component" /\ RenderedType = "week"
    /\ RenderedDate = dayOf(2024, 3, 3)
    /\ formatted[ret.start] = "2024-02-26" /\ formatted[ret.end] = "2024-03-03"

\* the month of the leap day and the year of the last day of 2024
Witness_C20_MonthAndYear ==
    \/ /\ SummaryDone /\ RenderedType = "month"
       /\ RenderedDate = dayOf(2024, 2, 29)
       /\ formatted[ret.start] = "2024-02-01" /\ formatted[ret.end] = "2024-02-29"
    \/ /\ SummaryDone /\ RenderedType = "year"
       /\ RenderedDate = dayOf(2024, 12, 31)
       /\ formatted[ret.start] = "2024-01-01" /\ formatted[ret.end] = "2024-12-31"

----------------------------------------------------------------------------
(* Properties of the entries map against the backend table *)

\* the map fetchEntries would build from the rows the backend holds now
Projection == nestRows(variant, rows)

\* two maps list the same entries on every day, a day with two empty lists
\* counting as a day with no bucket
SameEntries(a, b) ==
    \A d \in DOMAIN a \cup DOMAIN b : bucketOf(a, d) = bucketOf(b, d)

\* C21 (as claimed): with no request in flight the entries shown are those of
\* the backend table (stated for the states where entries are shown at all)
Cex_C21 ==
    (net = EmptyBag /\ ViewsShown /\ entries # <<>>)
        => SameEntries(entries, Projection)

\* the updates and deletes of the entry with this id that the backend has
\* not answered yet
MutationsInFlight(id) ==
    [ r \in { x \in BagToSet(net) :
                /\ x.op \in {"update", "delete"}
                /\ x.id = id
                /\ x.state = "sent" } |-> CopiesIn(r, net) ]

\* C22 (as claimed): no entry has two backend mutations in flight at once
Cex_C22 ==
    \A r \in BagToSet(net) : BagCardinality(MutationsInFlight(r.id)) <= 1

\* the ids of all the entries in the map
AllIds ==
    UNION { ListedIds(d, type) : d \in DOMAIN entries, type \in Types }

\* C23 (as claimed): the confirmation of an optimistic addEntry always finds
\* the day's bucket (the id swap never throws), and with no request in flight
\* no entry keeps a temporary id (stated for the states with no fetch error)
Cex_C23 ==
    /\ ~crashed
    /\ (net = EmptyBag /\ error = "null") => \A id \in AllIds : id > 0

\* C24 (as claimed): with two deletes in flight, the rollback of the failed
\* one puts back the entry of that delete and no other, and takes no listed
\* entry away
Cex_C24 ==
    [][ \A r \in Awaited("delete", "error") :
            ( /\ DeleteEntrySettle
              /\ net' = Drop(net, r)
              /\ \E q \in BagToSet(net) : q.op = "delete" /\ q # r ) =>
                /\ AllIds' \subseteq AllIds \cup {r.id}
                /\ AllIds \subseteq AllIds'
      ]_vars

\* C25: a time form submitted while an entry is edited sends one update
\* request with the id of that entry and no insert; the update, applied by the
\* backend, keeps the number of rows and every id, and changes no other row
Thm_C25 ==
    [][ /\ ( /\ DayDetailView_handleTimeSubmit(todayStr)
              /\ form.editingTimeId # 0
              /\ net' # net ) =>
                \E r \in BagToSet(net') :
                    /\ r.op = "update" /\ r.state = "sent"
                    /\ r.id = form.editingTimeId
                    /\ net' = Send(net, r)
        /\ \A r \in Awaited("update", "sent") :
              (BackendUpdate /\ net' = Answer(net, r, "ok", <<>>)) =>
                  /\ Len(rows') = Len(rows)
                  /\ \A i \in DOMAIN rows :
                        /\ rows'[i].id = rows[i].id
                        /\ rows[i].id # r.id => rows'[i] = rows[i]
                        /\ rows[i].id = r.id => rows'[i] = [r.row EXCEPT !.id = r.id]
      ]_vars

\* an edited entry was submitted and the backend has applied the update: the
\* table still holds one row, under its old id, with the fields submitted
Witness_C25 ==
    /\ Len(rows) = 1
    /\ nextId = 2
    /\ \E r \in Awaited("update", "ok") :
          /\ rows[1].id = r.id
          /\ rows[1] = [r.row EXCEPT !.id = r.id]
          /\ rows[1].end_time = TimeText(17, 0)
          /\ bucketOf(entries, todayStr).time[1].endTime = TimeText(17, 30)

\* C27: every bucket of the entries map holds a time list and an expense list,
\* and so does what renderView hands to the day view for any day
Thm_C27 ==
    /\ \A d \in DOMAIN entries : DOMAIN entries[d] = Types
    /\ \A d \in Dates : DOMAIN bucketOf(entries, d) = Types

\* the last entry of a day was deleted: its bucket is kept with two empty lists
Witness_C27 ==
    /\ Awaited("delete", "ok") # {}
    /\ \E d \in DOMAIN entries : entries[d] = EmptyBucket
    /\ \E d \in Dates : d \notin DOMAIN entries

\* the entries of a list other than the one with this id, in their order
Others(list, id) == SelectSeq(list, LAMBDA e : e.id # id)

\* C28: the optimistic step of deleteEntry takes the entries with that id out
\* of that type's list on that day and leaves the other entries of the list, in
\* their order, the other list and the other days as they were; for a day with
\* no bucket the map is left as it is
Thm_C28 ==
    [][ /\ \A date \in DOMAIN entries, type \in Types, id \in AllIds :
              deleteEntry(date, type, id) =>
                  /\ DOMAIN entries' = DOMAIN entries
                  /\ id \notin (ListedIds(date, type))'
                  /\ entries'[date][type] = Others(entries[date][type], id)
                  /\ \A t \in Types \ {type} :
                        entries'[date][t] = entries[date][t]
                  /\ \A d \in DOMAIN entries \ {date} :
                        entries'[d] = entries[d]
        /\ \A date \in Dates \ DOMAIN entries, type \in Types, id \in AllIds :
              removeEntry(entries, date, type, id) = entries
      ]_vars

\* a delete was pressed on one of two entries of a list: the other one is
\* still listed
Witness_C28 ==
    \E r \in Awaited("delete", "sent") :
        \E d \in DOMAIN r.original, type \in Types :
            /\ Len(r.original[d][type]) = 2
            /\ d \in DOMAIN entries
            /\ Len(entries[d][type]) = 1
            /\ entries[d][type][1].id # r.id

\* C29: once a fetch has failed the error stays set, whatever happens next,
\* and renderView keeps returning the error screen in place of the views
Thm_C29 ==
    [][ error # "null" => (error' = error /\ ~ViewsShown') ]_vars

\* the error is set and the entries are those of the backend table, loaded by
\* a fetch that succeeded
Witness_C29 ==
    /\ error # "null"
    /\ entries # <<>>
    /\ entries = Projection
    /\ net = EmptyBag
    /\ ~loadingData
    /\ ~ViewsShown

\* C26 (as claimed): an update sent by the edit form leaves the row on its day
Cex_C26 ==
    [][ BackendUpdate => \A i \in DOMAIN rows : rows'[i].date = rows[i].date ]_vars

\* C30 (as claimed): while the view is 'today' the selected date is today
Cex_C30 ==
    currentView = "today" => selectedDate = todayStr

====
